---- MODULE Spec2Model ----
(***************************************************************************)
(* Flat-output reconciliation and rebuild engine of                        *)
(* AllInOne_OCR_Pipeline_GUI_v4.py: recreate_from_original_tree (template  *)
(* mode) and process_from_excel_mapping (XLSX mapping mode).               *)
(*                                                                         *)
(* Path strings are sequences of one-character strings, so that lower(),   *)
(* strip(), splitext(), dirname() and join() are computed, not assumed.    *)
(* Paths follow the Windows flavour of os.path (ntpath), which the source  *)
(* targets (normalize_path turns "/" into "\").  File identity is the      *)
(* exact path: two names differing only in case are two files, which is    *)
(* the situation the duplicate handling of build_flat_index exists for.    *)
(* The three roots (original tree, flat folder, destination) are distinct  *)
(* directories (the GUI refuses a destination equal to the flat folder     *)
(* when moving) and nothing else touches them during a run.  UNC prefixes  *)
(* (\\server\share) are not among the paths used.  A move or copy that     *)
(* raises leaves the disk as it was.                                       *)
(*                                                                         *)
(* Spec       one rebuild call, from the call to its return or exception   *)
(* SpecTwice  the same rebuild job called twice on the same disk           *)
(* SpecProbe  normalisation, expected key and decision for one source item *)
(* SpecPre    the pre-OCR step: pre_ocr_append_token of the GUI v4 and     *)
(*            pre_ocr_rename of AllInOne_OCR_Pipeline_GlobalCounter_v3.py  *)
(* SpecSimple rebuild_structure of AllInOne_OCR_Pipeline_GlobalCounter_v3  *)
(* SpecCompare the comparison window of getFolderComparison_ignoreExt.py:  *)
(*            the main thread's button handlers and the worker threads     *)
(***************************************************************************)
EXTENDS Integers, Sequences, FiniteSets, TLC

VARIABLES
    mode,                   \* "tree": recreate_from_original_tree, "xlsx": process_from_excel_mapping
    move_files,             \* parameter move_files
    report_path,            \* parameter report_path: <<>> (omitted) or a path
    scan_all,               \* parameter scan_all (tree mode)
    directory_is_full_path, \* parameter directory_is_full_path (xlsx mode)
    output_ext,             \* parameter output_ext, reassigned by the normalisation
    output_suffix,          \* parameter output_suffix, reassigned by the normalisation
    input_exists,           \* os.path.isdir(original_root) / os.path.isfile(spreadsheet_path)
    items,                  \* the os.walk files in walk order / the rows of df in row order
    fs,                     \* the files on disk: full path -> content
    dirs,                   \* the directories on disk
    fs0,                    \* fs when the function was called
    dirs0,                  \* dirs when the function was called
    pc,                     \* position in the function
    raised,                 \* the exception that left the function, "" if none
    idx,                    \* index of the next item of the loop
    unique_lookup,          \* build_flat_index: key -> full path
    duplicates,             \* build_flat_index: key -> full paths (two or more)
    all_files,              \* build_flat_index: key -> full paths
    used_unique,            \* set of consumed keys
    missing_rows,           \* rows of the Missing sheet
    duplicate_rows,         \* rows of the Duplicates sheet
    orphan_rows,            \* rows of the Orphans sheet
    total_inputs,           \* total_inputs / rows_considered
    moved_or_copied,
    missing_not_found,
    skipped_duplicates,
    errors,
    outcome,                \* per item: what the loop body did with it
    placed,                 \* the successful move/copy calls, in order: item, src, dest
    log,                    \* the lines given to log_fn, by kind
    report,                 \* the workbook written, <<>> if none
    run,                    \* 1 in the first call, 2 when the caller runs the same job again
    first,                  \* the arguments of the first call and, in run 2, what it did
    probe,                  \* one application of the resolution functions: arguments, result
    pre,                    \* pre_ocr_append_token / pre_ocr_rename: parameters and locals
    pre_fs,                 \* the files on disk during the pre-OCR step: full path -> content
    pre_dirs,               \* the directories on disk during the pre-OCR step
    stop,                   \* the caller's wish to stop the pre-OCR step, and when it came
    rb,                     \* rebuild_structure: parameters and locals
    rb_fs,                  \* the files on disk during rebuild_structure
    rb_dirs,                \* the directories on disk during rebuild_structure
    rb_fs0,                 \* rb_fs when rebuild_structure was called
    original_tree,          \* the files os.walk finds under the Original folder, in walk order
    revised_tree,           \* the files os.walk finds under the Revised folder, in walk order
    skip_hidden,            \* skip_hidden_var of the comparison window
    stop_flag,              \* self.stop_flag
    compare_btn,            \* state of the "Run comparison" button
    extract_btn,            \* state of the "Extract missing sources" button
    cancel_btn,             \* state of the "Cancel current job" button
    last_missing,           \* self.last_missing
    last_extra,             \* self.last_extra
    last_sources_by_key,    \* self.last_sources_by_key
    jobs,                   \* the worker threads started so far, each with its locals
    dest_files,             \* the files copied under the extraction destination
    cancelled_at            \* history: how many jobs had been started at the last Cancel

config == <<mode, move_files, report_path, scan_all, directory_is_full_path,
            input_exists, fs0, dirs0, run, first>>
index == <<unique_lookup, duplicates, all_files, duplicate_rows>>
counters == <<total_inputs, moved_or_copied, missing_not_found, skipped_duplicates, errors>>
pre_vars == <<pre, pre_fs, pre_dirs, stop>>
rb_vars == <<rb, rb_fs, rb_dirs, rb_fs0>>
buttons == <<compare_btn, extract_btn, cancel_btn>>
last_results == <<last_missing, last_extra, last_sources_by_key>>
cmp_vars == <<original_tree, revised_tree, skip_hidden, stop_flag, buttons, last_results,
              jobs, dest_files, cancelled_at>>
other_calls == <<probe, pre_vars, rb_vars, cmp_vars>>
job_vars == <<config, items, output_ext, output_suffix, fs, dirs, pc, raised, idx, index,
              used_unique, missing_rows, orphan_rows, counters, outcome, placed, log, report>>
vars == <<other_calls, job_vars>>

----------------------------------------------------------------------------
(* Bounds *)

MaxRows == 2        \* rows of the mapping sheet

----------------------------------------------------------------------------
(* Strings *)

SEP == "\\"
Seps == {"\\", "/"}

LowerChar(c) ==
    CASE c = "X" -> "x" [] c = "Y" -> "y" [] c = "P" -> "p" [] c = "D" -> "d"
      [] c = "F" -> "f" [] c = "C" -> "c" [] c = "O" -> "o" [] OTHER -> c

lower(s) == [i \in 1..Len(s) |-> LowerChar(s[i])]

startswith(s, p) == Len(s) >= Len(p) /\ SubSeq(s, 1, Len(p)) = p

endswith(s, p) == Len(s) >= Len(p) /\ SubSeq(s, Len(s) - Len(p) + 1, Len(s)) = p

\* s.endswith(tuple): true when one of the tuple's members is a suffix
endswith_any(s, ps) == \E p \in ps : endswith(s, p)

Max(S) == CHOOSE x \in S : \A y \in S : y <= x
Min(S) == CHOOSE x \in S : \A y \in S : x <= y

\* s.rfind over a set of characters, 0 when absent
rfind(s, cs) == Max({0} \cup {i \in 1..Len(s) : s[i] \in cs})

lstrip(s, cs) ==
    LET keep == {i \in 1..Len(s) : s[i] \notin cs}
    IN  IF keep = {} THEN <<>> ELSE SubSeq(s, Min(keep), Len(s))

rstrip(s, cs) ==
    LET keep == {i \in 1..Len(s) : s[i] \notin cs}
    IN  IF keep = {} THEN <<>> ELSE SubSeq(s, 1, Max(keep))

strip(s) == rstrip(lstrip(s, {" "}), {" "})

replace_slash(s) == [i \in 1..Len(s) |-> IF s[i] = "/" THEN SEP ELSE s[i]]

\* os.path.splitext(p)[0]: cut at the last dot of the last component, unless
\* that component has only dots before it
splitext_root(p) ==
    LET sepIndex == rfind(p, Seps)
        dotIndex == rfind(p, {"."})
    IN  IF dotIndex > sepIndex /\ \E j \in (sepIndex + 1)..(dotIndex - 1) : p[j] # "."
        THEN SubSeq(p, 1, dotIndex - 1)
        ELSE p

has_drive(p) == Len(p) >= 2 /\ p[2] = ":"
drive_of(p) == IF has_drive(p) THEN SubSeq(p, 1, 2) ELSE <<>>
tail_of(p) == IF has_drive(p) THEN SubSeq(p, 3, Len(p)) ELSE p

\* os.path.dirname(p)
dirname(p) ==
    LET rest == tail_of(p)
        head == SubSeq(rest, 1, rfind(rest, Seps))
        cut == rstrip(head, Seps)
    IN  drive_of(p) \o (IF cut = <<>> THEN head ELSE cut)

\* os.path.basename(p)
basename(p) == LET rest == tail_of(p) IN SubSeq(rest, rfind(rest, Seps) + 1, Len(rest))

\* os.path.join(a, b)
os_path_join(a, b) ==
    LET ta == tail_of(a)
        tb == tail_of(b)
        rooted == tb # <<>> /\ tb[1] \in Seps
        path_a == lstrip(ta, Seps)
    IN  IF rooted
        THEN IF has_drive(b) \/ ~has_drive(a) THEN b ELSE drive_of(a) \o tb
        ELSE IF has_drive(b) /\ lower(drive_of(b)) # lower(drive_of(a))
        THEN b
        ELSE (IF has_drive(b) THEN drive_of(b) ELSE drive_of(a))
             \o ta
             \o (IF path_a # <<>> /\ path_a[Len(path_a)] \notin Seps THEN <<SEP>> ELSE <<>>)
             \o tb

\* The directory a path names, whatever separators end it
dir_key(p) == LET cut == rstrip(tail_of(p), Seps)
              IN  drive_of(p) \o (IF cut = <<>> /\ tail_of(p) # <<>> THEN <<SEP>> ELSE cut)

normalize_path(p) == replace_slash(strip(p))

strip_drive_and_leading_slashes(p) ==
    LET q == normalize_path(p)
    IN  lstrip(IF Len(q) >= 2 /\ q[2] = ":" THEN SubSeq(q, 3, Len(q)) ELSE q, {SEP})

----------------------------------------------------------------------------
(* The run's surroundings: folders, candidate files and rows *)

flat_folder == <<"F", ":", "\\", "f">>
destination_root == <<"D", ":", "\\", "o">>

\* Names that may be in the flat folder: x.pdf, X.PDF, x_o.pdf, n.txt
FlatNames == { <<"x", ".", "p", "d", "f">>, <<"X", ".", "P", "D", "F">>,
               <<"x", "_", "o", ".", "p", "d", "f">>, <<"n", ".", "t", "x", "t">> }

\* A subdirectory of the flat folder whose name ends like an output file
FlatSubdir == os_path_join(flat_folder, <<"s", ".", "p", "d", "f">>)

\* The files under the original root as os.walk yields them, top-down, each
\* directory's files sorted by lower-cased name: x.doc, x_o.doc, a\x.pdf, a\X.txt
TreeWalk == << [dir |-> <<".">>, name |-> <<"x", ".", "d", "o", "c">>],
               [dir |-> <<".">>, name |-> <<"x", "_", "o", ".", "d", "o", "c">>],
               [dir |-> <<"a">>, name |-> <<"x", ".", "p", "d", "f">>],
               [dir |-> <<"a">>, name |-> <<"X", ".", "t", "x", "t">>] >>

\* The subsequence of s at the positions in keep
RECURSIVE select_seq(_, _)
select_seq(s, keep) ==
    IF s = <<>> THEN <<>>
    ELSE LET rest == select_seq(Tail(s), {i - 1 : i \in keep \ {1}})
         IN  IF 1 \in keep THEN <<Head(s)>> \o rest ELSE rest

Trees == {select_seq(TreeWalk, keep) : keep \in SUBSET (1..Len(TreeWalk))}

\* An empty cell, which pandas reads as NaN
NaN == <<"NaN">>

\* Rows of the sheet (directory cell, name cell):
\*   C:\a\x.dgn | x.dgn      a/x | " X_O "      (blank) | x      a/x | NaN
RowVals == { [dir |-> <<"C", ":", "\\", "a", "\\", "x", ".", "d", "g", "n">>,
              name |-> <<"x", ".", "d", "g", "n">>],
             [dir |-> <<"a", "/", "x">>, name |-> <<" ", "X", "_", "O", " ">>],
             [dir |-> <<" ">>, name |-> <<"x">>],
             [dir |-> <<"a", "/", "x">>, name |-> NaN] }

Sheets == UNION {[1..n -> RowVals] : n \in 0..MaxRows}

\* output_ext and output_suffix as the caller may give them
OutputSettings == { [ext |-> <<".", "p", "d", "f">>, suffix |-> <<>>],
                    [ext |-> <<"P", "D", "F">>, suffix |-> <<" ", "_", "o", " ">>] }

include_exts == { <<".", "d", "o", "c">> }

ReportPaths == { <<>>, <<"r", "\\", "w">> }

----------------------------------------------------------------------------
(* Shared helpers *)

\* The directories os.makedirs(path, exist_ok=True) makes sure of
RECURSIVE makedirs(_)
makedirs(path) ==
    LET d == dir_key(path)
    IN  IF tail_of(d) = <<>> \/ dirname(d) = d THEN {} ELSE {d} \cup makedirs(dirname(d))

ensure_dir(ds, path) == ds \cup makedirs(path)

isdir(ds, path) == makedirs(path) \subseteq ds

\* os.listdir(flat_folder): the names of the files and subdirectories in it
listdir(files, ds, folder) ==
    {basename(p) : p \in {q \in (DOMAIN files) \cup ds : q # folder /\ dirname(q) = folder}}

\* Faulty variant of the definition that follows: subdirectories are indexed like files
index_all_files_no_isfile(files, ds, folder, allowed_exts) ==
    LET names == {n \in listdir(files, ds, folder) : endswith_any(lower(n), allowed_exts)}
        keys == {lower(n) : n \in names}
    IN  [k \in keys |-> {os_path_join(folder, n) : n \in {m \in names : lower(m) = k}}]

\* build_flat_index: the three maps.  The lists of full paths are sets here:
\* their order is the order of os.listdir, which is arbitrary.
index_all_files(files, ds, folder, allowed_exts) ==
    LET names == {n \in listdir(files, ds, folder) :
                    /\ os_path_join(folder, n) \in DOMAIN files
                    /\ endswith_any(lower(n), allowed_exts)}
        keys == {lower(n) : n \in names}
    IN  [k \in keys |-> {os_path_join(folder, n) : n \in {m \in names : lower(m) = k}}]

index_unique_lookup(all) ==
    [k \in {j \in DOMAIN all : Cardinality(all[j]) = 1} |-> CHOOSE p \in all[k] : TRUE]

\* Faulty variant of the definition that follows: a group needs more than two files to count as duplicates
index_duplicates_off_by_one(all) ==
    [k \in {j \in DOMAIN all : Cardinality(all[j]) > 2} |-> all[k]]

index_duplicates(all) ==
    [k \in {j \in DOMAIN all : Cardinality(all[j]) # 1} |-> all[k]]

build_flat_index(files, ds, folder, allowed_exts) ==
    LET all == index_all_files(files, ds, folder, allowed_exts)
    IN  [unique_lookup |-> index_unique_lookup(all),
         duplicates |-> index_duplicates(all),
         all_files |-> all]

\* The rows of the Duplicates sheet
duplicate_rows_of(dups) ==
    UNION {{[flat_filename |-> basename(p), duplicate_count |-> Cardinality(dups[k]),
             flat_full_path |-> p] : p \in dups[k]} : k \in DOMAIN dups}

\* Faulty variant of the definition that follows: the dot is added, the case is kept
normalize_ext_keeps_case(ext) == IF startswith(ext, <<".">>) THEN ext ELSE <<".">> \o ext

\* The normalisation of output_ext and output_suffix
normalize_ext(ext) == lower(IF startswith(ext, <<".">>) THEN ext ELSE <<".">> \o ext)
normalize_suffix(suffix) == strip(suffix)

----------------------------------------------------------------------------
(* Expected name, key and target folder of a source item *)

\* recreate_from_original_tree: which files of the walk are source items
should_include_file(name, ext, all, exts) ==
    LET n == lower(name)
    IN  IF endswith(n, ext) THEN FALSE
        ELSE IF all THEN TRUE
        ELSE endswith_any(n, exts)

\* process_from_excel_mapping: a row with a blank (NaN, empty, spaces) cell
blank_cell(v) == v = NaN \/ strip(v) = <<>>

\* Faulty variant of the definition that follows: the name cell is not looked at
blank_row_dir_only(row) == blank_cell(row.dir)

blank_row(row) == blank_cell(row.dir) \/ blank_cell(row.name)

tree_resolve(item, suffix, ext) ==
    LET base == splitext_root(item.name)
        expected_name == base \o suffix \o ext
    IN  [expected_name |-> expected_name,
         expected_key |-> lower(expected_name),
         target_folder_rel |-> IF item.dir # <<".">> THEN item.dir ELSE <<>>]

mapping_resolve(row, suffix, ext, full) ==
    LET directory_value == normalize_path(row.dir)
        base_name_raw == strip(row.name)
        base_name == strip(splitext_root(base_name_raw))
        expected_name == base_name \o suffix \o ext
        target_folder == dirname(directory_value)
    IN  [expected_name |-> expected_name,
         expected_key |-> lower(expected_name),
         target_folder_rel |-> IF full
                               THEN strip_drive_and_leading_slashes(target_folder)
                               ELSE rstrip(lstrip(target_folder, {SEP}), {SEP})]

\* Faulty variant of the definition that follows: the duplicate check is left out
classify_no_duplicate_check(expected_key, dups, unique) ==
    IF expected_key \notin DOMAIN unique THEN "missing" ELSE "match"

\* The three-way decision of the loop body on an expected key
classify(expected_key, dups, unique) ==
    IF expected_key \in DOMAIN dups THEN "duplicate"
    ELSE IF expected_key \notin DOMAIN unique THEN "missing"
    ELSE "match"

\* The rows of the Orphans sheet
orphan_rows_of(all, dups, used) ==
    UNION {{[flat_filename |-> basename(p), flat_full_path |-> p] :
              p \in {q \in all[k] : k \in DOMAIN dups \/ k \notin used}} : k \in DOMAIN all}

----------------------------------------------------------------------------
(* State at the call *)

InitJob ==
    /\ mode \in {"tree", "xlsx"}
    /\ move_files \in BOOLEAN
    /\ report_path \in ReportPaths
    /\ scan_all \in (IF mode = "tree" THEN BOOLEAN ELSE {TRUE})
    /\ directory_is_full_path \in (IF mode = "xlsx" THEN BOOLEAN ELSE {FALSE})
    /\ \E o \in OutputSettings : output_ext = o.ext /\ output_suffix = o.suffix
    /\ input_exists \in BOOLEAN
    /\ \/ fs = << >> /\ dirs = {}
       \/ \E names \in SUBSET FlatNames :
            /\ fs = [p \in {os_path_join(flat_folder, n) : n \in names} |-> p]
            /\ dirs = {flat_folder, FlatSubdir}
    /\ fs0 = fs
    /\ dirs0 = dirs
    /\ items = <<>>
    /\ pc = "start"
    /\ raised = ""
    /\ idx = 1
    /\ unique_lookup = << >>
    /\ duplicates = << >>
    /\ all_files = << >>
    /\ duplicate_rows = {}
    /\ used_unique = {}
    /\ missing_rows = <<>>
    /\ orphan_rows = {}
    /\ total_inputs = 0
    /\ moved_or_copied = 0
    /\ missing_not_found = 0
    /\ skipped_duplicates = 0
    /\ errors = 0
    /\ outcome = <<>>
    /\ placed = <<>>
    /\ log = <<>>
    /\ report = <<>>
    /\ run = 1
    /\ first = [output_ext |-> output_ext, output_suffix |-> output_suffix,
                items |-> <<>>, outcome |-> <<>>, orphans |-> {}]

\* No application of the resolution functions on its own
NoProbe == [fn |-> "none"]

\* The pre-OCR step is not called
NoPre ==
    /\ pre = [fn |-> "none"]
    /\ pre_fs = << >>
    /\ pre_dirs = {}
    /\ stop = [set |-> FALSE, at |-> 0]

\* rebuild_structure is not called
NoSimple ==
    /\ rb = [pc |-> "none"]
    /\ rb_fs = << >>
    /\ rb_dirs = {}
    /\ rb_fs0 = << >>

\* The comparison window is not opened
NoCompare ==
    /\ original_tree = << >>
    /\ revised_tree = << >>
    /\ skip_hidden = TRUE
    /\ stop_flag = FALSE
    /\ compare_btn = "normal"
    /\ extract_btn = "disabled"
    /\ cancel_btn = "disabled"
    /\ last_missing = << >>
    /\ last_extra = << >>
    /\ last_sources_by_key = << >>
    /\ jobs = << >>
    /\ dest_files = {}
    /\ cancelled_at = 0

Init == InitJob /\ probe = NoProbe /\ NoPre /\ NoSimple /\ NoCompare

\* The rebuild functions are not called
NoJob ==
    /\ InitJob
    /\ mode = "tree" /\ ~move_files /\ report_path = <<>> /\ scan_all
    /\ output_ext = <<".", "p", "d", "f">>
    /\ ~input_exists
    /\ fs = << >>

run_state == <<idx, used_unique, missing_rows, orphan_rows, counters, outcome, placed,
               log, report>>

----------------------------------------------------------------------------
(* Precondition checks and set-up *)

\* Faulty variant of the definition that follows: the destination root is made before the inputs are checked
RaiseMissingInput_after_ensure_dir ==
    /\ pc = "start"
    /\ ~input_exists \/ ~isdir(dirs, flat_folder)
    /\ dirs' = ensure_dir(dirs, destination_root)
    /\ pc' = "raised"
    /\ raised' = IF ~input_exists THEN "ValueError: input not found"
                 ELSE "ValueError: flat folder not found"
    /\ UNCHANGED <<other_calls, config, items, output_ext, output_suffix, fs, index, run_state>>

\* The input (original root, spreadsheet) or the flat folder is not there
RaiseMissingInput ==
    /\ pc = "start"
    /\ ~input_exists \/ ~isdir(dirs, flat_folder)
    /\ pc' = "raised"
    /\ raised' = IF ~input_exists THEN "ValueError: input not found"
                 ELSE "ValueError: flat folder not found"
    /\ UNCHANGED <<other_calls, config, items, output_ext, output_suffix, fs, dirs, index, run_state>>

\* ensure_dir(destination_root) cannot make the directory
RaiseDestinationRoot ==
    /\ pc = "start"
    /\ input_exists /\ isdir(dirs, flat_folder)
    /\ ~isdir(dirs, destination_root)
    /\ pc' = "raised"
    /\ raised' = "OSError: destination_root"
    /\ UNCHANGED <<other_calls, config, items, output_ext, output_suffix, fs, dirs, index, run_state>>

\* pd.read_excel fails, or a column is not in the sheet
RaiseMapping ==
    /\ pc = "start"
    /\ mode = "xlsx"
    /\ input_exists /\ isdir(dirs, flat_folder)
    /\ dirs' = ensure_dir(dirs, destination_root)
    /\ output_ext' = normalize_ext(output_ext)
    /\ output_suffix' = normalize_suffix(output_suffix)
    /\ pc' = "raised"
    /\ raised' \in {"read_excel", "ValueError: directory column not found",
                    "ValueError: name column not found"}
    /\ UNCHANGED <<other_calls, config, items, fs, index, run_state>>

\* Everything up to the loop: destination root, normalisation, the sheet or
\* the walk, the flat index and the Duplicates rows
BeginRun ==
    /\ pc = "start"
    /\ input_exists /\ isdir(dirs, flat_folder)
    /\ dirs' = ensure_dir(dirs, destination_root)
    /\ output_ext' = normalize_ext(output_ext)
    /\ output_suffix' = normalize_suffix(output_suffix)
    /\ items' \in (IF run = 2 THEN {first.items}
                   ELSE IF mode = "tree" THEN Trees ELSE Sheets)
    /\ LET ix == build_flat_index(fs, dirs, flat_folder, {output_ext'})
       IN  /\ unique_lookup' = ix.unique_lookup
           /\ duplicates' = ix.duplicates
           /\ all_files' = ix.all_files
           /\ duplicate_rows' = duplicate_rows_of(ix.duplicates)
    /\ outcome' = [i \in 1..Len(items') |-> "pending"]
    /\ pc' = "loop"
    /\ UNCHANGED <<other_calls, config, fs, raised, idx, used_unique, missing_rows, orphan_rows,
                   counters, placed, log, report>>

----------------------------------------------------------------------------
(* The loop over the source items *)

item == items[idx]

considered(it) ==
    IF mode = "tree" THEN should_include_file(it.name, output_ext, scan_all, include_exts)
    ELSE ~blank_row(it)

resolve(it) ==
    IF mode = "tree" THEN tree_resolve(it, output_suffix, output_ext)
    ELSE mapping_resolve(it, output_suffix, output_ext, directory_is_full_path)

dest_dir_of(it) == os_path_join(destination_root, resolve(it).target_folder_rel)
\* Faulty variant of the definition that follows: the placed file keeps the name it has in the flat folder
dest_path_keeps_flat_name(it) ==
    os_path_join(dest_dir_of(it), basename(unique_lookup[resolve(it).expected_key]))

dest_path_of(it) == os_path_join(dest_dir_of(it), resolve(it).expected_name)

row_of(i, reason) ==
    [item |-> i,
     target_folder_rel |-> resolve(items[i]).target_folder_rel,
     expected_output_name |-> resolve(items[i]).expected_name,
     reason |-> reason]

log_line(kind, i) == [kind |-> kind, item |-> i]

in_loop == pc = "loop" /\ idx <= Len(items)

\* Faulty variant of the definition that follows: the source file is removed in copy mode too
materialize_always_removes(files, src, dest, move) ==
    [p \in ((DOMAIN files) \ {src}) \cup {dest} |->
        IF p = dest THEN files[src] ELSE files[p]]

\* Faulty variant of the definition that follows: the source file stays in move mode too
materialize_never_removes(files, src, dest, move) ==
    [p \in (DOMAIN files) \cup {dest} |->
        IF p = dest THEN files[src] ELSE files[p]]

\* shutil.move / shutil.copy2 of src to dest
materialize(files, src, dest, move) ==
    [p \in ((DOMAIN files) \ (IF move THEN {src} ELSE {})) \cup {dest} |->
        IF p = dest THEN files[src] ELSE files[p]]

\* The disk answers the same call in the same way: in a second run of the job
\* the move or copy of item i fails for a reason of its own if and only if it
\* failed in the first run
same_call_failed(i) == run = 2 /\ first.outcome[i] = "error"

\* A walked file that is no source item, or a row with a blank cell: continue
SkipItem ==
    /\ in_loop
    /\ ~considered(item)
    /\ outcome' = [outcome EXCEPT ![idx] = "not considered"]
    /\ idx' = idx + 1
    /\ UNCHANGED <<other_calls, config, items, output_ext, output_suffix, fs, dirs, pc, raised, index,
                   used_unique, missing_rows, orphan_rows, counters, placed, log, report>>

\* The expected key names a duplicate group of the flat folder
ItemDuplicate ==
    /\ in_loop
    /\ considered(item)
    /\ classify(resolve(item).expected_key, duplicates, unique_lookup) = "duplicate"
    /\ total_inputs' = total_inputs + 1
    /\ skipped_duplicates' = skipped_duplicates + 1
    /\ missing_rows' = Append(missing_rows,
                              row_of(idx, "Duplicate filename in flat folder (skipped)"))
    /\ log' = Append(log, log_line("duplicate", idx))
    /\ outcome' = [outcome EXCEPT ![idx] = "SkippedDuplicate"]
    /\ idx' = idx + 1
    /\ UNCHANGED <<other_calls, config, items, output_ext, output_suffix, fs, dirs, pc, raised, index,
                   used_unique, orphan_rows, moved_or_copied, missing_not_found, errors,
                   placed, report>>

\* The expected key is not in the flat index
ItemMissing ==
    /\ in_loop
    /\ considered(item)
    /\ classify(resolve(item).expected_key, duplicates, unique_lookup) = "missing"
    /\ total_inputs' = total_inputs + 1
    /\ missing_not_found' = missing_not_found + 1
    /\ missing_rows' = Append(missing_rows, row_of(idx, "Not found in flat folder"))
    /\ log' = Append(log, log_line("missing", idx))
    /\ outcome' = [outcome EXCEPT ![idx] = "Missing"]
    /\ idx' = idx + 1
    /\ UNCHANGED <<other_calls, config, items, output_ext, output_suffix, fs, dirs, pc, raised, index,
                   used_unique, orphan_rows, moved_or_copied, skipped_duplicates, errors,
                   placed, report>>

\* A match whose destination folder cannot be made: ensure_dir(dest_dir) is
\* outside the try block, its exception leaves the function
RaiseDestDir ==
    /\ in_loop
    /\ considered(item)
    /\ classify(resolve(item).expected_key, duplicates, unique_lookup) = "match"
    /\ ~isdir(dirs, dest_dir_of(item))
    /\ total_inputs' = total_inputs + 1
    /\ outcome' = [outcome EXCEPT ![idx] = "raised"]
    /\ pc' = "raised"
    /\ raised' = "OSError: dest_dir"
    /\ UNCHANGED <<other_calls, config, items, output_ext, output_suffix, fs, dirs, idx, index,
                   used_unique, missing_rows, orphan_rows, moved_or_copied,
                   missing_not_found, skipped_duplicates, errors, placed, log, report>>

\* Faulty variant of the definition that follows: the consumed key is taken out of unique_lookup
ItemPlaced_pops_lookup ==
    /\ in_loop
    /\ considered(item)
    /\ classify(resolve(item).expected_key, duplicates, unique_lookup) = "match"
    /\ LET src == unique_lookup[resolve(item).expected_key]
           dest == dest_path_of(item)
       IN  /\ src \in DOMAIN fs
           /\ move_files \/ src # dest
           /\ fs' = materialize(fs, src, dest, move_files)
           /\ placed' = Append(placed, [item |-> idx, src |-> src, dest |-> dest])
    /\ unique_lookup' = [k \in (DOMAIN unique_lookup) \ {resolve(item).expected_key} |->
                            unique_lookup[k]]
    /\ dirs' = ensure_dir(dirs, dest_dir_of(item))
    /\ total_inputs' = total_inputs + 1
    /\ moved_or_copied' = moved_or_copied + 1
    /\ used_unique' = used_unique \cup {resolve(item).expected_key}
    /\ log' = Append(log, log_line(IF move_files THEN "moved" ELSE "copied", idx))
    /\ outcome' = [outcome EXCEPT ![idx] = "Placed"]
    /\ idx' = idx + 1
    /\ UNCHANGED <<other_calls, config, items, output_ext, output_suffix, pc, raised,
                   duplicates, all_files, duplicate_rows,
                   missing_rows, orphan_rows, missing_not_found, skipped_duplicates,
                   errors, report>>

\* A match, moved or copied
ItemPlaced ==
    /\ in_loop
    /\ considered(item)
    /\ classify(resolve(item).expected_key, duplicates, unique_lookup) = "match"
    /\ LET src == unique_lookup[resolve(item).expected_key]
           dest == dest_path_of(item)
       IN  /\ src \in DOMAIN fs
           /\ move_files \/ src # dest
           /\ ~same_call_failed(idx)
           /\ fs' = materialize(fs, src, dest, move_files)
           /\ placed' = Append(placed, [item |-> idx, src |-> src, dest |-> dest])
    /\ dirs' = ensure_dir(dirs, dest_dir_of(item))
    /\ total_inputs' = total_inputs + 1
    /\ moved_or_copied' = moved_or_copied + 1
    /\ used_unique' = used_unique \cup {resolve(item).expected_key}
    /\ log' = Append(log, log_line(IF move_files THEN "moved" ELSE "copied", idx))
    /\ outcome' = [outcome EXCEPT ![idx] = "Placed"]
    /\ idx' = idx + 1
    /\ UNCHANGED <<other_calls, config, items, output_ext, output_suffix, pc, raised, index,
                   missing_rows, orphan_rows, missing_not_found, skipped_duplicates,
                   errors, report>>

\* Faulty variant of the definition that follows: the key is marked consumed before the move or copy is tried
ItemError_marks_used ==
    /\ in_loop
    /\ considered(item)
    /\ classify(resolve(item).expected_key, duplicates, unique_lookup) = "match"
    /\ dirs' = ensure_dir(dirs, dest_dir_of(item))
    /\ total_inputs' = total_inputs + 1
    /\ errors' = errors + 1
    /\ used_unique' = used_unique \cup {resolve(item).expected_key}
    /\ log' = Append(log, log_line("error", idx))
    /\ outcome' = [outcome EXCEPT ![idx] = "error"]
    /\ idx' = idx + 1
    /\ UNCHANGED <<other_calls, config, items, output_ext, output_suffix, fs, pc, raised, index,
                   missing_rows, orphan_rows, moved_or_copied,
                   missing_not_found, skipped_duplicates, placed, report>>

\* Faulty variant of the definition that follows: a failed move or copy is booked as Missing
ItemError_as_missing ==
    /\ in_loop
    /\ considered(item)
    /\ classify(resolve(item).expected_key, duplicates, unique_lookup) = "match"
    /\ dirs' = ensure_dir(dirs, dest_dir_of(item))
    /\ total_inputs' = total_inputs + 1
    /\ missing_not_found' = missing_not_found + 1
    /\ missing_rows' = Append(missing_rows, row_of(idx, "Not found in flat folder"))
    /\ log' = Append(log, log_line("missing", idx))
    /\ outcome' = [outcome EXCEPT ![idx] = "Missing"]
    /\ idx' = idx + 1
    /\ UNCHANGED <<other_calls, config, items, output_ext, output_suffix, fs, pc, raised,
                   index, used_unique, orphan_rows, moved_or_copied, skipped_duplicates,
                   errors, placed, report>>

\* A match whose move or copy raises: the file is no longer in the flat
\* folder, or the call fails for a reason of its own
ItemError ==
    /\ in_loop
    /\ considered(item)
    /\ classify(resolve(item).expected_key, duplicates, unique_lookup) = "match"
    /\ run = 2 => \/ same_call_failed(idx)
                  \/ unique_lookup[resolve(item).expected_key] \notin DOMAIN fs
    /\ dirs' = ensure_dir(dirs, dest_dir_of(item))
    /\ total_inputs' = total_inputs + 1
    /\ errors' = errors + 1
    /\ log' = Append(log, log_line("error", idx))
    /\ outcome' = [outcome EXCEPT ![idx] = "error"]
    /\ idx' = idx + 1
    /\ UNCHANGED <<other_calls, config, items, output_ext, output_suffix, fs, pc, raised, index,
                   used_unique, missing_rows, orphan_rows, moved_or_copied,
                   missing_not_found, skipped_duplicates, placed, report>>

----------------------------------------------------------------------------
(* After the loop: orphans, summary, report *)

loop_over == pc = "loop" /\ idx > Len(items)

summary_of(orphans) ==
    [action |-> IF move_files THEN "move" ELSE "copy",
     output_ext |-> output_ext,
     output_suffix |-> output_suffix,
     inputs_scanned |-> total_inputs,
     moved_or_copied |-> moved_or_copied,
     missing_not_found |-> missing_not_found,
     skipped_duplicates |-> skipped_duplicates,
     duplicate_filenames_in_flat |-> Cardinality(DOMAIN duplicates),
     duplicate_files_in_flat |-> Cardinality(UNION {duplicates[k] : k \in DOMAIN duplicates}),
     orphans_total |-> Cardinality(orphans),
     errors |-> errors]

\* write_report_one_workbook, up to the directory of the workbook
report_dir == dirname(report_path)

\* No report path: the summary is logged
FinishNoReport ==
    /\ loop_over
    /\ report_path = <<>>
    /\ orphan_rows' = orphan_rows_of(all_files, duplicates, used_unique)
    /\ log' = Append(log, log_line("summary", 0))
    /\ pc' = "done"
    /\ UNCHANGED <<other_calls, config, items, output_ext, output_suffix, fs, dirs, raised, idx, index,
                   used_unique, missing_rows, counters, outcome, placed, report>>

\* The workbook is written, then the summary is logged
FinishReport ==
    /\ loop_over
    /\ report_path # <<>>
    /\ orphan_rows' = orphan_rows_of(all_files, duplicates, used_unique)
    /\ dirs' = IF report_dir # <<>> THEN ensure_dir(dirs, report_dir) ELSE dirs
    /\ report' = [summary |-> summary_of(orphan_rows'), missing |-> missing_rows,
                  duplicates |-> duplicate_rows, orphans |-> orphan_rows']
    /\ log' = log \o <<log_line("report written", 0), log_line("summary", 0)>>
    /\ pc' = "done"
    /\ UNCHANGED <<other_calls, config, items, output_ext, output_suffix, fs, raised, idx, index,
                   used_unique, missing_rows, counters, outcome, placed>>

\* Faulty variant of the definition that follows: the directory of the workbook is made before the loop
RaiseReportDir_before_loop ==
    /\ pc = "loop" /\ idx = 1
    /\ report_path # <<>>
    /\ report_dir # <<>> /\ ~isdir(dirs, report_dir)
    /\ pc' = "raised"
    /\ raised' = "OSError: report directory"
    /\ UNCHANGED <<other_calls, config, items, output_ext, output_suffix, fs, dirs, idx, index,
                   used_unique, missing_rows, orphan_rows, counters, outcome, placed,
                   log, report>>

\* ensure_dir(out_dir) of write_report_one_workbook raises
RaiseReportDir ==
    /\ loop_over
    /\ report_path # <<>>
    /\ report_dir # <<>> /\ ~isdir(dirs, report_dir)
    /\ orphan_rows' = orphan_rows_of(all_files, duplicates, used_unique)
    /\ pc' = "raised"
    /\ raised' = "OSError: report directory"
    /\ UNCHANGED <<other_calls, config, items, output_ext, output_suffix, fs, dirs, idx, index,
                   used_unique, missing_rows, counters, outcome, placed, log, report>>

\* Faulty variant of the definition that follows: a failed report write undoes the moves and copies
RaiseReportWrite_rollback ==
    /\ loop_over
    /\ report_path # <<>>
    /\ orphan_rows' = orphan_rows_of(all_files, duplicates, used_unique)
    /\ dirs' = IF report_dir # <<>> THEN ensure_dir(dirs, report_dir) ELSE dirs
    /\ fs' = fs0
    /\ pc' = "raised"
    /\ raised' = "report write"
    /\ UNCHANGED <<other_calls, config, items, output_ext, output_suffix, idx, index,
                   used_unique, missing_rows, counters, outcome, placed, log, report>>

\* pd.ExcelWriter or to_excel raises
RaiseReportWrite ==
    /\ loop_over
    /\ report_path # <<>>
    /\ orphan_rows' = orphan_rows_of(all_files, duplicates, used_unique)
    /\ dirs' = IF report_dir # <<>> THEN ensure_dir(dirs, report_dir) ELSE dirs
    /\ pc' = "raised"
    /\ raised' = "report write"
    /\ UNCHANGED <<other_calls, config, items, output_ext, output_suffix, fs, idx, index,
                   used_unique, missing_rows, counters, outcome, placed, log, report>>

----------------------------------------------------------------------------

Next ==
    \/ RaiseMissingInput
    \/ RaiseDestinationRoot
    \/ RaiseMapping
    \/ BeginRun
    \/ SkipItem
    \/ ItemDuplicate
    \/ ItemMissing
    \/ RaiseDestDir
    \/ ItemPlaced
    \/ ItemError
    \/ FinishNoReport
    \/ FinishReport
    \/ RaiseReportDir
    \/ RaiseReportWrite

Spec == Init /\ [][Next]_vars

----------------------------------------------------------------------------
(* The same job run twice *)

\* The first call has returned; the caller starts the function again with the
\* arguments of the first call, on the disk the first call left
RunAgain ==
    /\ pc = "done"
    /\ run = 1
    /\ run' = 2
    /\ first' = [first EXCEPT !.items = items, !.outcome = outcome,
                              !.orphans = {r.flat_full_path : r \in orphan_rows}]
    /\ output_ext' = first.output_ext
    /\ output_suffix' = first.output_suffix
    /\ fs0' = fs
    /\ dirs0' = dirs
    /\ items' = <<>>
    /\ pc' = "start"
    /\ idx' = 1
    /\ unique_lookup' = << >>
    /\ duplicates' = << >>
    /\ all_files' = << >>
    /\ duplicate_rows' = {}
    /\ used_unique' = {}
    /\ missing_rows' = <<>>
    /\ orphan_rows' = {}
    /\ total_inputs' = 0
    /\ moved_or_copied' = 0
    /\ missing_not_found' = 0
    /\ skipped_duplicates' = 0
    /\ errors' = 0
    /\ outcome' = <<>>
    /\ placed' = <<>>
    /\ log' = <<>>
    /\ report' = <<>>
    /\ UNCHANGED <<other_calls, mode, move_files, report_path, scan_all, directory_is_full_path,
                   input_exists, fs, dirs, raised>>

\* Jobs whose inputs are there and that ask for no report
InitTwice == Init /\ input_exists /\ isdir(dirs, flat_folder) /\ report_path = <<>>

NextTwice ==
    \/ BeginRun
    \/ SkipItem
    \/ ItemDuplicate
    \/ ItemMissing
    \/ RaiseDestDir
    \/ ItemPlaced
    \/ ItemError
    \/ FinishNoReport
    \/ RunAgain

SpecTwice == InitTwice /\ [][NextTwice]_vars

----------------------------------------------------------------------------
(* Normalisation, expected key and classification of one source item *)

\* Spellings of output_ext, and output_suffix values, a caller may give
ExtInputs == { <<".", "P", "D", "F">>, <<"p", "d", "f">>, <<".", "p", "d", "f">>,
               <<"P", "D", "F">>, <<".", "t", "x", "t">> }
SuffixInputs == { <<>>, <<" ", "_", "o", " ">> }

\* A file name or a name cell is a stem followed by an extension or by nothing
Stems == { <<"x">>, <<"X", " ">>, <<"x", "_", "o">>, <<"x", ".", "o">> }
NameExts == { <<>>, <<".", "d", "g", "n">> }

ProbeArgs ==
    [mode : {"tree"}, dir : {<<".">>, <<"a">>}, stem : Stems,
     name_ext : {<<".", "d", "o", "c">>}, directory_is_full_path : {FALSE},
     output_ext : ExtInputs, output_suffix : SuffixInputs, names : SUBSET FlatNames]
    \cup
    [mode : {"xlsx"},
     dir : {<<"C", ":", "\\", "a", "\\", "x", ".", "d", "g", "n">>, <<"a", "/", "x">>},
     stem : Stems, name_ext : NameExts, directory_is_full_path : BOOLEAN,
     output_ext : ExtInputs, output_suffix : SuffixInputs, names : SUBSET FlatNames]

\* The lines between the normalisation and the loop body's decision, for one
\* source item, with output_ext and output_suffix as they are after the
\* normalisation
lookup_with(a, ext, suffix) ==
    LET files == [p \in {os_path_join(flat_folder, n) : n \in a.names} |-> p]
        ix == build_flat_index(files, {flat_folder, FlatSubdir}, flat_folder, {ext})
        it == [dir |-> a.dir, name |-> a.stem \o a.name_ext]
        r == IF a.mode = "tree" THEN tree_resolve(it, suffix, ext)
             ELSE mapping_resolve(it, suffix, ext, a.directory_is_full_path)
    IN  [output_ext |-> ext,
         all_files |-> ix.all_files,
         expected_key |-> r.expected_key,
         status |-> classify(r.expected_key, ix.duplicates, ix.unique_lookup)]

lookup(a) == lookup_with(a, normalize_ext(a.output_ext), normalize_suffix(a.output_suffix))

InitProbe == NoJob /\ NoPre /\ NoSimple /\ NoCompare /\ \E a \in ProbeArgs : probe = [fn |-> "call", args |-> a]

Resolve ==
    /\ probe.fn = "call"
    /\ probe' = [fn |-> "return", args |-> probe.args, result |-> lookup(probe.args)]
    /\ UNCHANGED <<job_vars, cmp_vars, pre_vars, rb_vars>>

NextProbe == Resolve

SpecProbe == InitProbe /\ [][NextProbe]_vars

----------------------------------------------------------------------------
(* The pre-OCR step: pre_ocr_append_token (GUI v4) and pre_ocr_rename (v3) *)

source_root == <<"C", ":", "\\", "i">>
staging_root == <<"D", ":", "\\", "g">>
separator == <<"_", "_">>
pre_include_exts == { <<".", "t", "x", "t">> }

\* The files that may be under the source root, in the order in which os.walk
\* with files.sort(key=lower) yields them: a.txt, a__1.txt, b.pdf, d\a.txt
PreWalk == << [dir |-> <<".">>, name |-> <<"a", ".", "t", "x", "t">>],
              [dir |-> <<".">>, name |-> <<"a", "_", "_", "1", ".", "t", "x", "t">>],
              [dir |-> <<".">>, name |-> <<"b", ".", "p", "d", "f">>],
              [dir |-> <<"d">>, name |-> <<"a", ".", "t", "x", "t">>] >>

\* Files an earlier run may have left in the staging root
StagedNames == { <<"a", "_", "_", "1", ".", "t", "x", "t">>,
                 <<"a", "_", "_", "1", "_", "1", ".", "t", "x", "t">> }

StagedSets == { {}, {<<"a", "_", "_", "1", ".", "t", "x", "t">>}, StagedNames }

\* counter_padding / padding as the caller may give it
PaddingInputs == {0, 2}

walk_root(it) == IF it.dir = <<".">> THEN source_root ELSE os_path_join(source_root, it.dir)
src_full_of(it) == os_path_join(walk_root(it), it.name)

\* os.walk(source_root) with each directory's files sorted
walk(files) ==
    select_seq(PreWalk, {k \in 1..Len(PreWalk) : src_full_of(PreWalk[k]) \in DOMAIN files})

Digits == <<"0", "1", "2", "3", "4", "5", "6", "7", "8", "9">>

\* str(n) of a natural number
RECURSIVE str_int(_)
str_int(n) ==
    IF n < 10 THEN <<Digits[n + 1]>> ELSE str_int(n \div 10) \o <<Digits[(n % 10) + 1]>>

\* str.zfill
RECURSIVE zfill(_, _)
zfill(s, width) == IF Len(s) >= width THEN s ELSE zfill(<<"0">> \o s, width)

\* os.path.getsize of a file, by what the file holds
getsize(content) ==
    IF basename(content) = <<"b", ".", "p", "d", "f">> THEN 12 ELSE 1

splitext_ext(p) == SubSeq(p, Len(splitext_root(p)) + 1, Len(p))

build_new_name(filename, token, sep) ==
    splitext_root(filename) \o sep \o token \o splitext_ext(filename)

\* The token of a file: its size, or the counter padded with zeros
token_of(content, counter) ==
    IF pre.token_mode = "size" THEN str_int(getsize(content))
    ELSE zfill(str_int(counter),
               IF pre.fn = "pre_ocr_append_token" THEN Max({1, pre.counter_padding})
               ELSE pre.counter_padding)

pre_dest_dir(it) ==
    IF pre.mode = "rename" THEN walk_root(it)
    ELSE os_path_join(staging_root, IF it.dir = <<".">> THEN <<>> ELSE it.dir)

exists(files, ds, p) == p \in DOMAIN files \/ p \in ds

\* while os.path.exists(f"{base2}_{n}{ext2}"): n += 1
RECURSIVE next_free(_, _, _, _, _)
next_free(files, ds, base2, ext2, n) ==
    LET candidate == base2 \o <<"_">> \o str_int(n) \o ext2
    IN  IF exists(files, ds, candidate) THEN next_free(files, ds, base2, ext2, n + 1)
        ELSE candidate

\* Faulty variant of the definition that follows: the destination is used as computed
final_dest_unchecked(files, ds, dest_full) == dest_full

\* Collision handling: the destination as computed, or with _1, _2, ...
final_dest_of(files, ds, dest_full) ==
    IF exists(files, ds, dest_full)
    THEN next_free(files, ds, splitext_root(dest_full), splitext_ext(dest_full), 1)
    ELSE dest_full

PreArgs ==
    [fn : {"pre_ocr_append_token", "pre_ocr_rename"},
     mode : {"copy", "rename"},
     token_mode : {"counter", "size"},
     counter_padding : PaddingInputs,
     filter_enabled : BOOLEAN,
     report_path : ReportPaths]

InitPre ==
    /\ NoJob
    /\ probe = NoProbe
    /\ NoSimple
    /\ NoCompare
    /\ stop = [set |-> FALSE, at |-> 0]
    /\ \E a \in PreArgs :
        /\ a.fn = "pre_ocr_rename" => ~a.filter_enabled
        /\ a.token_mode = "size" => a.counter_padding = 0
        /\ pre = [fn |-> a.fn, mode |-> a.mode, token_mode |-> a.token_mode,
                  counter_padding |-> a.counter_padding,
                  filter_enabled |-> a.filter_enabled, report_path |-> a.report_path,
                  pc |-> "start", raised |-> "", files |-> <<>>, i |-> 1,
                  scanned |-> 0, processed |-> 0, skipped |-> 0, collisions |-> 0,
                  errors |-> 0, rows |-> <<>>, counter |-> 1, log |-> <<>>,
                  report |-> <<>>]
    /\ \/ pre_fs = << >> /\ pre_dirs = {}
       \/ \E keep \in SUBSET (1..Len(PreWalk)) :
          \E staged \in StagedSets :
            LET paths == {src_full_of(PreWalk[k]) : k \in keep}
                             \cup {os_path_join(staging_root, n) : n \in staged}
            IN  /\ pre.mode = "rename" => staged = {}
                /\ pre_fs = [p \in paths |-> p]
                /\ pre_dirs = {source_root, os_path_join(source_root, <<"d">>)}
                                \cup (IF staged = {} THEN {} ELSE {staging_root})

pre_v4 == pre.fn = "pre_ocr_append_token"

\* The source root is not a directory
PreRaiseSource ==
    /\ pre.pc = "start"
    /\ ~isdir(pre_dirs, source_root)
    /\ pre' = [pre EXCEPT !.pc = "raised", !.raised = "ValueError: source root not found"]
    /\ UNCHANGED <<job_vars, cmp_vars, probe, rb_vars, pre_fs, pre_dirs, stop>>

\* ensure_dir(staging_root) cannot make the directory
PreRaiseStaging ==
    /\ pre.pc = "start"
    /\ isdir(pre_dirs, source_root)
    /\ pre.mode = "copy" /\ ~isdir(pre_dirs, staging_root)
    /\ pre' = [pre EXCEPT !.pc = "raised", !.raised = "OSError: staging_root"]
    /\ UNCHANGED <<job_vars, cmp_vars, probe, rb_vars, pre_fs, pre_dirs, stop>>

\* Up to the loop: the staging root is made, the walk begins
PreBegin ==
    /\ pre.pc = "start"
    /\ isdir(pre_dirs, source_root)
    /\ pre_dirs' = IF pre.mode = "copy" THEN ensure_dir(pre_dirs, staging_root) ELSE pre_dirs
    /\ pre' = [pre EXCEPT !.pc = "loop", !.files = walk(pre_fs)]
    /\ UNCHANGED <<job_vars, cmp_vars, probe, rb_vars, pre_fs, stop>>

\* The caller wishes to stop the step.  Neither function takes a stop flag or
\* looks at one, so the wish is known to the caller only.
RequestStop ==
    /\ pre.pc = "loop"
    /\ ~stop.set
    /\ stop' = [set |-> TRUE, at |-> pre.i]
    /\ UNCHANGED <<job_vars, cmp_vars, probe, rb_vars, pre, pre_fs, pre_dirs>>

pre_item == pre.files[pre.i]

pre_in_loop == pre.pc = "loop" /\ pre.i <= Len(pre.files)

passes_filter(it) ==
    ~(pre_v4 /\ pre.filter_enabled) \/ endswith_any(lower(it.name), pre_include_exts)

\* The locals after the token was made: scanned and counter
with_token(p) ==
    [p EXCEPT !.scanned = IF pre_v4 THEN @ + 1 ELSE @,
              !.counter = IF pre.token_mode = "counter" THEN @ + 1 ELSE @]

pre_token == token_of(pre_fs[src_full_of(pre_item)], pre.counter)
pre_dest_full ==
    os_path_join(pre_dest_dir(pre_item), build_new_name(pre_item.name, pre_token, separator))
pre_final_dest == final_dest_of(pre_fs, pre_dirs, pre_dest_full)
pre_collides == exists(pre_fs, pre_dirs, pre_dest_full)

pre_row(final_dest, token, action, status) ==
    IF pre_v4
    THEN [source_full_path |-> src_full_of(pre_item), new_full_path |-> final_dest,
          original_name |-> pre_item.name,
          new_name |-> IF final_dest = <<>> THEN <<>> ELSE basename(final_dest),
          token |-> token, action |-> action, status |-> status]
    ELSE [original |-> src_full_of(pre_item), new_path |-> final_dest, action |-> action]

\* Faulty variant of the definition that follows: a file left out by the filter uses up a counter value
PreSkip_consumes_counter ==
    /\ pre_in_loop
    /\ ~passes_filter(pre_item)
    /\ pre' = [pre EXCEPT !.scanned = @ + 1, !.skipped = @ + 1, !.counter = @ + 1,
                          !.i = @ + 1]
    /\ UNCHANGED <<job_vars, cmp_vars, probe, rb_vars, pre_fs, pre_dirs, stop>>

\* The file's extension is not in the filter (pre_ocr_append_token only)
PreSkip ==
    /\ pre_in_loop
    /\ ~passes_filter(pre_item)
    /\ pre' = [pre EXCEPT !.scanned = @ + 1, !.skipped = @ + 1, !.i = @ + 1]
    /\ UNCHANGED <<job_vars, cmp_vars, probe, rb_vars, pre_fs, pre_dirs, stop>>

\* os.path.getsize raises: an ERROR row in pre_ocr_append_token, the end of
\* pre_ocr_rename
PreTokenError ==
    /\ pre_in_loop
    /\ passes_filter(pre_item)
    /\ pre.token_mode = "size"
    /\ pre' = IF pre_v4
              THEN [pre EXCEPT !.scanned = @ + 1, !.errors = @ + 1,
                               !.rows = Append(@, pre_row(<<>>, <<>>, pre.mode, "ERROR")),
                               !.log = Append(@, "error token"),
                               !.i = @ + 1]
              ELSE [pre EXCEPT !.pc = "raised", !.raised = "OSError: getsize"]
    /\ UNCHANGED <<job_vars, cmp_vars, probe, rb_vars, pre_fs, pre_dirs, stop>>

\* ensure_dir(dest_dir) raises in copy mode; it is outside any try block
PreRaiseDestDir ==
    /\ pre_in_loop
    /\ passes_filter(pre_item)
    /\ pre.mode = "copy"
    /\ ~isdir(pre_dirs, pre_dest_dir(pre_item))
    /\ pre' = [with_token(pre) EXCEPT !.pc = "raised", !.raised = "OSError: dest_dir"]
    /\ UNCHANGED <<job_vars, cmp_vars, probe, rb_vars, pre_fs, pre_dirs, stop>>

\* The locals after the collision handling
with_collision(p) ==
    [p EXCEPT !.collisions = IF pre_v4 /\ pre_collides THEN @ + 1 ELSE @]

\* The file is renamed or copied
PreProcessed ==
    /\ pre_in_loop
    /\ passes_filter(pre_item)
    /\ LET src == src_full_of(pre_item)
           action == IF pre.mode = "rename" THEN "RENAMED" ELSE "COPIED"
       IN  /\ pre_fs' = materialize(pre_fs, src, pre_final_dest, pre.mode = "rename")
           /\ pre' = [with_collision(with_token(pre)) EXCEPT
                        !.processed = IF pre_v4 THEN @ + 1 ELSE @,
                        !.rows = Append(@, pre_row(pre_final_dest, pre_token, action, "OK")),
                        !.log = Append(@, action),
                        !.i = @ + 1]
    /\ pre_dirs' = IF pre.mode = "copy" THEN ensure_dir(pre_dirs, pre_dest_dir(pre_item))
                   ELSE pre_dirs
    /\ UNCHANGED <<job_vars, cmp_vars, probe, rb_vars, stop>>

\* os.rename or shutil.copy2 raises: an ERROR row in pre_ocr_append_token,
\* the end of pre_ocr_rename
PreIOError ==
    /\ pre_in_loop
    /\ passes_filter(pre_item)
    /\ pre' = IF pre_v4
              THEN [with_collision(with_token(pre)) EXCEPT
                        !.errors = @ + 1,
                        !.rows = Append(@, pre_row(pre_final_dest, pre_token, pre.mode,
                                                   "ERROR")),
                        !.log = Append(@, "error copy/rename"),
                        !.i = @ + 1]
              ELSE [with_token(pre) EXCEPT !.pc = "raised",
                                           !.raised = "OSError: copy/rename"]
    /\ pre_dirs' = IF pre.mode = "copy" THEN ensure_dir(pre_dirs, pre_dest_dir(pre_item))
                   ELSE pre_dirs
    /\ UNCHANGED <<job_vars, cmp_vars, probe, rb_vars, pre_fs, stop>>

\* Faulty variant of the definition that follows: the loop is left as soon as the caller wishes to stop
pre_loop_over_or_stopped == pre.pc = "loop" /\ (pre.i > Len(pre.files) \/ stop.set)

\* The walk is exhausted: the only way out of the loop short of an exception
pre_loop_over == pre.pc = "loop" /\ pre.i > Len(pre.files)

pre_summary ==
    [mode |-> pre.mode, token_mode |-> pre.token_mode,
     files_scanned |-> pre.scanned, files_processed |-> pre.processed,
     skipped |-> pre.skipped, collisions |-> pre.collisions, errors |-> pre.errors]

\* After the loop: the report, if asked for, and the closing lines of the log
PreFinish ==
    /\ pre_loop_over
    /\ pre' = [pre EXCEPT
                !.pc = "done",
                !.report = IF pre.report_path = <<>> THEN <<>>
                           ELSE IF pre_v4 THEN [summary |-> pre_summary, rows |-> pre.rows]
                           ELSE [rows |-> pre.rows],
                !.log = @ \o (IF pre.report_path # <<>> /\ pre_v4
                              THEN <<"report written">> ELSE <<>>) \o <<"summary">>]
    /\ pre_dirs' = IF pre.report_path = <<>> THEN pre_dirs
                   ELSE ensure_dir(pre_dirs, dirname(pre.report_path))
    /\ UNCHANGED <<job_vars, cmp_vars, probe, rb_vars, pre_fs, stop>>

\* The report cannot be written
PreRaiseReport ==
    /\ pre_loop_over
    /\ pre.report_path # <<>>
    /\ pre' = [pre EXCEPT !.pc = "raised", !.raised = "report write"]
    /\ UNCHANGED <<job_vars, cmp_vars, probe, rb_vars, pre_fs, pre_dirs, stop>>

NextPre ==
    \/ PreRaiseSource
    \/ PreRaiseStaging
    \/ PreBegin
    \/ RequestStop
    \/ PreSkip
    \/ PreTokenError
    \/ PreRaiseDestDir
    \/ PreProcessed
    \/ PreIOError
    \/ PreFinish
    \/ PreRaiseReport

SpecPre == InitPre /\ [][NextPre]_vars

----------------------------------------------------------------------------
(* The simple rebuild: rebuild_structure (GlobalCounter v3) *)

\* The files under the original root as os.walk yields them with files.sort(),
\* which puts upper case first: x.doc, x_o.doc, a\X.txt, a\x.pdf
SimpleWalk == << [dir |-> <<".">>, name |-> <<"x", ".", "d", "o", "c">>],
                 [dir |-> <<".">>, name |-> <<"x", "_", "o", ".", "d", "o", "c">>],
                 [dir |-> <<"a">>, name |-> <<"X", ".", "t", "x", "t">>],
                 [dir |-> <<"a">>, name |-> <<"x", ".", "p", "d", "f">>] >>

SimpleTrees == {select_seq(SimpleWalk, keep) : keep \in SUBSET (1..Len(SimpleWalk))}

\* output_ext and output_suffix as the caller may give them; neither is normalised
SimpleSettings ==
    [ext : { <<".", "p", "d", "f">>, <<".", "P", "D", "F">> },
     suffix : { <<>>, <<"_", "o">> }]

\* The dictionaries the comprehension over os.listdir(flat_folder) can give:
\* every entry of the folder (file or subdirectory) whose lower-cased name
\* ends with the lower-cased extension, under its lower-cased name; of the
\* entries that share a key, the one listed last stays, and the order of
\* os.listdir is arbitrary
flat_files_dicts(files, ds, folder, ext) ==
    LET names == {n \in listdir(files, ds, folder) : endswith(lower(n), lower(ext))}
        keys == {lower(n) : n \in names}
    IN  {f \in [keys -> {os_path_join(folder, n) : n \in names}] :
            \A k \in keys : lower(basename(f[k])) = k}

InitSimple ==
    /\ NoJob
    /\ probe = NoProbe
    /\ NoPre
    /\ NoCompare
    /\ \E mv \in BOOLEAN : \E o \in SimpleSettings :
        rb = [move_files |-> mv, output_ext |-> o.ext, output_suffix |-> o.suffix,
              pc |-> "start", raised |-> "", files |-> <<>>, i |-> 1,
              flat_files |-> << >>, placed |-> <<>>, log |-> <<>>]
    /\ \/ rb_fs = << >> /\ rb_dirs = {}
       \/ \E names \in SUBSET FlatNames :
            /\ rb_fs = [p \in {os_path_join(flat_folder, n) : n \in names} |-> p]
            /\ rb_dirs = {flat_folder, FlatSubdir}
    /\ rb_fs0 = rb_fs

\* os.listdir(flat_folder) raises: the flat folder is not there.  The
\* destination root has been made.
RbRaiseListdir ==
    /\ rb.pc = "start"
    /\ ~isdir(rb_dirs, flat_folder)
    /\ rb_dirs' = ensure_dir(rb_dirs, destination_root)
    /\ rb' = [rb EXCEPT !.pc = "raised", !.raised = "FileNotFoundError: flat_folder"]
    /\ UNCHANGED <<job_vars, cmp_vars, probe, pre_vars, rb_fs, rb_fs0>>

\* Up to the loop: the destination root, the dictionary of the flat folder
RbBegin ==
    /\ rb.pc = "start"
    /\ isdir(rb_dirs, flat_folder)
    /\ rb_dirs' = ensure_dir(rb_dirs, destination_root)
    /\ \E f \in flat_files_dicts(rb_fs, rb_dirs, flat_folder, rb.output_ext) :
       \E t \in SimpleTrees :
            rb' = [rb EXCEPT !.pc = "loop", !.flat_files = f, !.files = t]
    /\ UNCHANGED <<job_vars, cmp_vars, probe, pre_vars, rb_fs, rb_fs0>>

rb_item == rb.files[rb.i]
rb_in_loop == rb.pc = "loop" /\ rb.i <= Len(rb.files)
rb_expected == splitext_root(rb_item.name) \o rb.output_suffix \o rb.output_ext
rb_expected_key == lower(rb_expected)
rb_dest_dir ==
    os_path_join(destination_root, IF rb_item.dir = <<".">> THEN <<>> ELSE rb_item.dir)
rb_dest_path == os_path_join(rb_dest_dir, rb_expected)

\* The expected key is not in the dictionary
RbMissing ==
    /\ rb_in_loop
    /\ rb_expected_key \notin DOMAIN rb.flat_files
    /\ rb' = [rb EXCEPT !.log = Append(@, [kind |-> "missing", item |-> rb.i]),
                        !.i = @ + 1]
    /\ UNCHANGED <<job_vars, cmp_vars, probe, pre_vars, rb_fs, rb_dirs, rb_fs0>>

\* The file the dictionary names is moved or copied
RbPlaced ==
    /\ rb_in_loop
    /\ rb_expected_key \in DOMAIN rb.flat_files
    /\ LET src == rb.flat_files[rb_expected_key]
       IN  /\ src \in DOMAIN rb_fs
           /\ rb_fs' = materialize(rb_fs, src, rb_dest_path, rb.move_files)
           /\ rb' = [rb EXCEPT
                        !.placed = Append(@, [item |-> rb.i, src |-> src,
                                              dest |-> rb_dest_path]),
                        !.log = Append(@, [kind |-> "placed", item |-> rb.i]),
                        !.i = @ + 1]
    /\ rb_dirs' = ensure_dir(rb_dirs, rb_dest_dir)
    /\ UNCHANGED <<job_vars, cmp_vars, probe, pre_vars, rb_fs0>>

\* shutil.move or shutil.copy2 raises (the file has been moved already, or
\* the call fails for a reason of its own); there is no try block
RbRaiseIO ==
    /\ rb_in_loop
    /\ rb_expected_key \in DOMAIN rb.flat_files
    /\ rb_dirs' = ensure_dir(rb_dirs, rb_dest_dir)
    /\ rb' = [rb EXCEPT !.pc = "raised", !.raised = "OSError: move/copy"]
    /\ UNCHANGED <<job_vars, cmp_vars, probe, pre_vars, rb_fs, rb_fs0>>

\* The walk is exhausted
RbFinish ==
    /\ rb.pc = "loop" /\ rb.i > Len(rb.files)
    /\ rb' = [rb EXCEPT !.pc = "done"]
    /\ UNCHANGED <<job_vars, cmp_vars, probe, pre_vars, rb_fs, rb_dirs, rb_fs0>>

NextSimple ==
    \/ RbRaiseListdir
    \/ RbBegin
    \/ RbMissing
    \/ RbPlaced
    \/ RbRaiseIO
    \/ RbFinish

SpecSimple == InitSimple /\ [][NextSimple]_vars

----------------------------------------------------------------------------
(* getFolderComparison_ignoreExt.py: Original against Revised by            *)
(* (relative folder, stem), and the extraction of the missing sources.      *)
(* The two folders are not changed while the window is open; the handlers   *)
(* run_compare, run_extract and cancel run on the main thread, one at a     *)
(* time, and each job's worker runs on a thread of its own.  A handler that *)
(* returns after a message box (a folder that is not valid, nothing to      *)
(* extract) changes nothing and is left out.  The sizes and dates of a row  *)
(* only choose the example path of the report and are left out.             *)

MaxJobs == 2        \* jobs started while the window is open

cmp_original == <<"C", ":", "\\", "p">>
cmp_dest == <<"D", ":", "\\", "m">>
skip_extensions == { <<".", "t", "m", "p">>, <<".", "l", "o", "g">>, <<".", "b", "a", "k">> }

\* What os.walk finds, as paths relative to the root
OriginalTrees ==
    { << <<"x", ".", "d", "w", "g">>, <<"x", ".", "p", "d", "f">>,
         <<"a", "\\", "y", ".", "d", "o", "c">> >>,
      << <<"x", ".", "d", "w", "g">>, <<".", "h", ".", "d", "w", "g">>,
         <<"z", ".", "t", "m", "p">>, <<"~", "$", "x", ".", "d", "o", "c">> >> }

RevisedTrees ==
    { << >>,
      << <<"x", ".", "P", "D", "F">>, <<"a", "\\", "y", ".", "d", "o", "c">> >>,
      << <<"X", ".", "p", "d", "f">>, <<"a", "\\", "y", ".", "p", "d", "f">>,
         <<"q", ".", "p", "d", "f">> >>,
      << <<"x", ".", "p", "d", "f">>, <<"x", ".", "P", "D", "F">>,
         <<".", "h", ".", "p", "d", "f">> >> }

replace_backslash(s) == [i \in 1..Len(s) |-> IF s[i] = SEP THEN "/" ELSE s[i]]

\* safe_relpath(full, root), full being root joined with the walk entry
safe_relpath(entry) == replace_backslash(entry)

should_skip_file(full_path, hidden, exts) ==
    LET base == basename(full_path)
    IN  \/ hidden /\ startswith(base, <<".">>)
        \/ startswith(base, <<"~", "$">>)
        \/ lower(splitext_ext(base)) \in exts

\* The row scan_all_files appends for one file
scan_row(entry) ==
    LET rel == safe_relpath(entry)
        base == basename(rel)
    IN  [name |-> base,
         stem |-> splitext_root(base),
         ext |-> lower(splitext_ext(base)),
         rel |-> rel,
         rel_dir |-> replace_backslash(dirname(rel))]

scan_all_files(tree, hidden, exts) ==
    LET kept == select_seq(tree, {i \in 1..Len(tree) :
                                    ~should_skip_file(tree[i], hidden, exts)})
    IN  [i \in 1..Len(kept) |-> scan_row(kept[i])]

doc_key(r) == <<r.rel_dir, r.stem>>

\* The keys of a dict filled in this order: each key once, where it first came
RECURSIVE dict_keys(_)
dict_keys(ks) ==
    IF ks = << >> THEN << >>
    ELSE LET front == dict_keys(SubSeq(ks, 1, Len(ks) - 1))
             last == ks[Len(ks)]
         IN  IF \E i \in 1..Len(front) : front[i] = last THEN front ELSE Append(front, last)

sources_of(rows, key) == select_seq(rows, {i \in 1..Len(rows) : doc_key(rows[i]) = key})

expected_entry(rows, key) ==
    [key |-> key,
     expected_rel |-> IF key[1] # << >>
                      THEN key[1] \o <<"/">> \o key[2] \o <<".", "p", "d", "f">>
                      ELSE key[2] \o <<".", "p", "d", "f">>,
     variants |-> Len(sources_of(rows, key))]

\* One expected entry for every row, none merged
build_expected_pdfs_per_row(original_rows) ==
    LET keys == [i \in 1..Len(original_rows) |-> doc_key(original_rows[i])]
    IN  [expected |-> [i \in 1..Len(keys) |-> expected_entry(original_rows, keys[i])],
         sources_by_key |-> [i \in 1..Len(keys) |->
                                [key |-> keys[i], rows |-> sources_of(original_rows, keys[i])]]]

build_expected_pdfs(original_rows) ==
    LET keys == dict_keys([i \in 1..Len(original_rows) |-> doc_key(original_rows[i])])
    IN  [expected |-> [i \in 1..Len(keys) |-> expected_entry(original_rows, keys[i])],
         sources_by_key |-> [i \in 1..Len(keys) |->
                                [key |-> keys[i], rows |-> sources_of(original_rows, keys[i])]]]

\* idx[key] = r: the key stays where it first came, the row is the last one
index_revised_pdfs(revised_rows) ==
    LET pdfs == select_seq(revised_rows, {i \in 1..Len(revised_rows) :
                                            revised_rows[i].ext = <<".", "p", "d", "f">>})
        keys == dict_keys([i \in 1..Len(pdfs) |-> doc_key(pdfs[i])])
    IN  [i \in 1..Len(keys) |->
            [key |-> keys[i],
             row |-> pdfs[Max({j \in 1..Len(pdfs) : doc_key(pdfs[j]) = keys[i]})]]]

has_key(d, key) == \E i \in 1..Len(d) : d[i].key = key

\* run_compare, worker: the rows of the Missing and of the Extra sheet
missing_of(expected, revised_idx) ==
    select_seq(expected, {i \in 1..Len(expected) : ~has_key(revised_idx, expected[i].key)})

extra_of(expected, revised_idx) ==
    select_seq(revised_idx, {i \in 1..Len(revised_idx) : ~has_key(expected, revised_idx[i].key)})

\* sources_by_key.get(key, [])
sources_get(sources_by_key, key) ==
    IF has_key(sources_by_key, key)
    THEN sources_by_key[CHOOSE i \in 1..Len(sources_by_key) : sources_by_key[i].key = key].rows
    ELSE << >>

RECURSIVE flatten(_)
flatten(ss) == IF ss = << >> THEN << >> ELSE Head(ss) \o flatten(Tail(ss))

\* copy_sources_for_missing: the list of files to copy
to_copy_of(missing, sources_by_key, original_root, dest_root) ==
    flatten([m \in 1..Len(missing) |->
        LET srcs == sources_get(sources_by_key, missing[m].key)
        IN  [s \in 1..Len(srcs) |->
                [src_full |-> os_path_join(original_root, replace_slash(srcs[s].rel)),
                 dst_full |-> os_path_join(dest_root, replace_slash(srcs[s].rel))]]])

InitCompare ==
    /\ NoJob
    /\ probe = NoProbe
    /\ NoPre
    /\ NoSimple
    /\ original_tree \in OriginalTrees
    /\ revised_tree \in RevisedTrees
    /\ skip_hidden \in BOOLEAN
    /\ stop_flag = FALSE
    /\ compare_btn = "normal"
    /\ extract_btn = "disabled"
    /\ cancel_btn = "disabled"
    /\ last_missing = << >>
    /\ last_extra = << >>
    /\ last_sources_by_key = << >>
    /\ jobs = << >>
    /\ dest_files = {}
    /\ cancelled_at = 0

folders == <<original_tree, revised_tree, skip_hidden>>

new_job(kind) ==
    [kind |-> kind, pc |-> IF kind = "compare" THEN "scan_original" ELSE "copy_sources",
     expected |-> << >>, to_copy |-> << >>, total |-> 0, i |-> 1,
     copied |-> 0, failed |-> 0, res |-> ""]

set_busy(busy, missing) ==
    /\ compare_btn' = IF busy THEN "disabled" ELSE "normal"
    /\ extract_btn' = IF busy THEN "disabled"
                      ELSE IF missing # << >> THEN "normal" ELSE "disabled"
    /\ cancel_btn' = IF busy THEN "normal" ELSE "disabled"

\* "Run comparison" is pressed
run_compare ==
    /\ compare_btn = "normal"
    /\ Len(jobs) < MaxJobs
    /\ stop_flag' = FALSE
    /\ set_busy(TRUE, last_missing)
    /\ jobs' = Append(jobs, new_job("compare"))
    /\ UNCHANGED <<job_vars, probe, pre_vars, rb_vars, folders, last_results, dest_files,
                   cancelled_at>>

\* "Extract missing sources" is pressed
run_extract ==
    /\ extract_btn = "normal"
    /\ Len(jobs) < MaxJobs
    /\ last_missing # << >> /\ last_sources_by_key # << >>
    /\ stop_flag' = FALSE
    /\ set_busy(TRUE, last_missing)
    /\ jobs' = Append(jobs, new_job("extract"))
    /\ UNCHANGED <<job_vars, probe, pre_vars, rb_vars, folders, last_results, dest_files,
                   cancelled_at>>

\* "Cancel current job" is pressed
cancel ==
    /\ cancel_btn = "normal"
    /\ stop_flag' = TRUE
    /\ cancelled_at' = Len(jobs)
    /\ UNCHANGED <<job_vars, probe, pre_vars, rb_vars, folders, buttons, last_results,
                   jobs, dest_files>>

at(j, kind, pc_) == jobs[j].kind = kind /\ jobs[j].pc = pc_

\* worker of run_compare: scan_all_files(original), then the stop flag is read
CompareScanOriginal ==
    \E j \in 1..Len(jobs) :
        /\ at(j, "compare", "scan_original")
        /\ jobs' = [jobs EXCEPT ![j].pc = IF stop_flag THEN "finally" ELSE "scan_revised",
                                ![j].res = IF stop_flag THEN "stopped" ELSE ""]
        /\ UNCHANGED <<job_vars, probe, pre_vars, rb_vars, folders, stop_flag, buttons,
                       last_results, dest_files, cancelled_at>>

\* worker of run_compare: scan_all_files(revised), then the stop flag is read
CompareScanRevised ==
    \E j \in 1..Len(jobs) :
        /\ at(j, "compare", "scan_revised")
        /\ jobs' = [jobs EXCEPT ![j].pc = IF stop_flag THEN "finally" ELSE "build",
                                ![j].res = IF stop_flag THEN "stopped" ELSE ""]
        /\ UNCHANGED <<job_vars, probe, pre_vars, rb_vars, folders, stop_flag, buttons,
                       last_results, dest_files, cancelled_at>>

\* worker of run_compare: expected, missing, extra, the workbook, the stored
\* lists and the Extract button
CompareStore ==
    \E j \in 1..Len(jobs) :
        /\ at(j, "compare", "build")
        /\ LET orig_rows == scan_all_files(original_tree, skip_hidden, skip_extensions)
               rev_rows == scan_all_files(revised_tree, skip_hidden, skip_extensions)
               built == build_expected_pdfs(orig_rows)
               revised_idx == index_revised_pdfs(rev_rows)
               missing == missing_of(built.expected, revised_idx)
               extra == extra_of(built.expected, revised_idx)
           IN  /\ last_missing' = missing
               /\ last_extra' = extra
               /\ last_sources_by_key' = built.sources_by_key
               /\ extract_btn' = IF missing # << >> THEN "normal" ELSE "disabled"
               /\ jobs' = [jobs EXCEPT ![j].pc = "finally", ![j].res = "ok",
                                       ![j].expected = built.expected]
        /\ UNCHANGED <<job_vars, probe, pre_vars, rb_vars, folders, stop_flag, compare_btn,
                       cancel_btn, dest_files, cancelled_at>>

\* worker of run_compare: export_excel raises
CompareError ==
    \E j \in 1..Len(jobs) :
        /\ at(j, "compare", "build")
        /\ jobs' = [jobs EXCEPT ![j].pc = "finally", ![j].res = "error"]
        /\ UNCHANGED <<job_vars, probe, pre_vars, rb_vars, folders, stop_flag, buttons,
                       last_results, dest_files, cancelled_at>>

\* worker of run_extract: copy_sources_for_missing builds to_copy
ExtractBuild ==
    \E j \in 1..Len(jobs) :
        /\ at(j, "extract", "copy_sources")
        /\ LET to_copy == to_copy_of(last_missing, last_sources_by_key, cmp_original, cmp_dest)
           IN  jobs' = [jobs EXCEPT ![j].pc = "loop", ![j].to_copy = to_copy,
                                    ![j].total = Len(to_copy)]
        /\ UNCHANGED <<job_vars, probe, pre_vars, rb_vars, folders, stop_flag, buttons,
                       last_results, dest_files, cancelled_at>>

in_copy_loop(j) == at(j, "extract", "loop") /\ jobs[j].i <= jobs[j].total

\* The stop flag is found set before a file
ExtractCancelled ==
    \E j \in 1..Len(jobs) :
        /\ in_copy_loop(j)
        /\ stop_flag
        /\ jobs' = [jobs EXCEPT ![j].pc = "finally", ![j].res = "cancelled"]
        /\ UNCHANGED <<job_vars, probe, pre_vars, rb_vars, folders, stop_flag, buttons,
                       last_results, dest_files, cancelled_at>>

\* ensure_dir of the destination folder raises: the exception leaves
\* copy_sources_for_missing and is caught by the worker
ExtractRaiseDestDir ==
    \E j \in 1..Len(jobs) :
        /\ in_copy_loop(j)
        /\ ~stop_flag
        /\ jobs' = [jobs EXCEPT ![j].pc = "finally", ![j].res = "raised"]
        /\ UNCHANGED <<job_vars, probe, pre_vars, rb_vars, folders, stop_flag, buttons,
                       last_results, dest_files, cancelled_at>>

\* shutil.copy2 succeeds
ExtractCopied ==
    \E j \in 1..Len(jobs) :
        /\ in_copy_loop(j)
        /\ ~stop_flag
        /\ dest_files' = dest_files \cup {jobs[j].to_copy[jobs[j].i].dst_full}
        /\ jobs' = [jobs EXCEPT ![j].copied = @ + 1, ![j].i = @ + 1]
        /\ UNCHANGED <<job_vars, probe, pre_vars, rb_vars, folders, stop_flag, buttons,
                       last_results, cancelled_at>>

\* shutil.copy2 raises
ExtractCopyFailed ==
    \E j \in 1..Len(jobs) :
        /\ in_copy_loop(j)
        /\ ~stop_flag
        /\ jobs' = [jobs EXCEPT ![j].failed = @ + 1, ![j].i = @ + 1]
        /\ UNCHANGED <<job_vars, probe, pre_vars, rb_vars, folders, stop_flag, buttons,
                       last_results, dest_files, cancelled_at>>

\* The loop is over
ExtractDone ==
    \E j \in 1..Len(jobs) :
        /\ at(j, "extract", "loop")
        /\ jobs[j].i > jobs[j].total
        /\ jobs' = [jobs EXCEPT ![j].pc = "finally", ![j].res = "done"]
        /\ UNCHANGED <<job_vars, probe, pre_vars, rb_vars, folders, stop_flag, buttons,
                       last_results, dest_files, cancelled_at>>

\* finally: self.set_busy(False), in either worker
WorkerFinally ==
    \E j \in 1..Len(jobs) :
        /\ jobs[j].pc = "finally"
        /\ set_busy(FALSE, last_missing)
        /\ jobs' = [jobs EXCEPT ![j].pc = "done"]
        /\ UNCHANGED <<job_vars, probe, pre_vars, rb_vars, folders, stop_flag, last_results,
                       dest_files, cancelled_at>>

NextCompare ==
    \/ run_compare
    \/ run_extract
    \/ cancel
    \/ CompareScanOriginal
    \/ CompareScanRevised
    \/ CompareStore
    \/ CompareError
    \/ ExtractBuild
    \/ ExtractCancelled
    \/ ExtractRaiseDestDir
    \/ ExtractCopied
    \/ ExtractCopyFailed
    \/ ExtractDone
    \/ WorkerFinally

SpecCompare == InitCompare /\ [][NextCompare]_vars

----------------------------------------------------------------------------
(* Vocabulary of the properties, stated on the disk as it was at the call *)

key_of_path(p) == lower(basename(p))

\* The flat files the run indexes: files directly in the flat folder whose
\* lower-cased name ends with the normalised output extension
flat_files0 ==
    {p \in DOMAIN fs0 : dirname(p) = flat_folder /\ endswith(key_of_path(p), output_ext)}

dup_group_files0 ==
    {p \in flat_files0 : \E q \in flat_files0 : q # p /\ key_of_path(q) = key_of_path(p)}

unique_files0 == flat_files0 \ dup_group_files0

key_of(i) == resolve(items[i]).expected_key

processed(i) == outcome[i] \notin {"pending", "not considered"}

placed_sources == {placed[j].src : j \in 1..Len(placed)}

orphan_paths == {r.flat_full_path : r \in orphan_rows}

ReportErrors == {"OSError: report directory", "report write"}

MappingErrors == {"read_excel", "ValueError: directory column not found",
                  "ValueError: name column not found"}

orphans_computed == pc = "done" \/ raised \in ReportErrors

----------------------------------------------------------------------------
(* C1..C10 *)

\* C1: no flat-folder file is placed more than once in a run, in move mode and
\* in copy mode alike: of the source items that resolve to one key of the
\* unique index at most one is Placed.
C1_PlacedAtMostOnce ==
    \A i, j \in 1..Len(placed) : placed[i].src = placed[j].src => i = j

\* C2: every source item whose expected key belongs to a duplicate group of the
\* flat folder is classified SkippedDuplicate, and no file of such a group is
\* ever moved or copied, however many items reference the key.
C2_DuplicateGroupNeverPlaced ==
    /\ \A i \in 1..Len(items) :
         (processed(i) /\ \E p \in dup_group_files0 : key_of_path(p) = key_of(i))
             => outcome[i] = "SkippedDuplicate"
    /\ \A p \in dup_group_files0 :
         /\ p \in DOMAIN fs /\ fs[p] = fs0[p]
         /\ p \notin placed_sources
         /\ \A q \in (DOMAIN fs) \ (DOMAIN fs0) : fs[q] # fs0[p]

C2_Witness ==
    /\ pc = "done"
    /\ \E i, j \in 1..Len(items) :
         /\ i # j /\ key_of(i) = key_of(j)
         /\ outcome[i] = "SkippedDuplicate" /\ outcome[j] = "SkippedDuplicate"
         /\ \E p \in dup_group_files0 : key_of_path(p) = key_of(i)

\* C3: a key is marked consumed only by a successful move/copy; at the end of
\* a run the orphan rows are exactly the files of the duplicate groups plus the
\* unique flat files whose key was never consumed; no placed flat file is an
\* orphan, and a flat file whose move/copy failed and that no item placed is
\* an orphan.
C3_OrphansExact ==
    /\ pc # "start" =>
         used_unique = {key_of(placed[j].item) : j \in 1..Len(placed)}
    /\ orphans_computed =>
         /\ orphan_paths = dup_group_files0
                             \cup {p \in unique_files0 : key_of_path(p) \notin used_unique}
         /\ \A r \in orphan_rows : r.flat_filename = basename(r.flat_full_path)
         /\ placed_sources \cap orphan_paths = {}
         /\ \A i \in 1..Len(items) :
              outcome[i] = "error" =>
                \A p \in unique_files0 :
                  (key_of_path(p) = key_of(i) /\ p \notin placed_sources)
                      => p \in orphan_paths

C3_Witness ==
    /\ pc = "done"
    /\ placed # <<>>
    /\ \E i \in 1..Len(items) :
         /\ outcome[i] = "error"
         /\ \E p \in unique_files0 :
              key_of_path(p) = key_of(i) /\ p \notin placed_sources /\ p \in orphan_paths

\* C4: a considered source item is classified Missing, with a row of reason
\* "Not found in flat folder", if and only if its expected key is the
\* lower-cased name of no indexed flat file (neither unique nor duplicate).
C4_MissingIffKeyAbsent ==
    \A i \in 1..Len(items) :
        processed(i) =>
          /\ outcome[i] = "Missing" <=> (\A p \in flat_files0 : key_of_path(p) # key_of(i))
          /\ outcome[i] = "Missing" <=>
               \E k \in 1..Len(missing_rows) :
                   /\ missing_rows[k].item = i
                   /\ missing_rows[k].reason = "Not found in flat folder"

C4_Witness ==
    /\ pc = "done"
    /\ \E i, j \in 1..Len(items) :
         /\ outcome[i] = "Missing" /\ (\A p \in flat_files0 : key_of_path(p) # key_of(i))
         /\ outcome[j] = "Placed"

\* C5: a Materializer failure for one matched item (the destination directory
\* cannot be created, or the move/copy fails) does not abort the run: once the
\* loop has started, the function ends only with every item processed.
C5_MaterializerFailureDoesNotAbort ==
    pc \in {"done", "raised"} =>
        \A i \in 1..Len(items) : outcome[i] \notin {"pending", "raised"}

\* C6: when the move/copy of a matched item fails, the error counter is
\* incremented and a row for that item is among the rows given to the report.
C6_ErrorRowForFailedItem ==
    \A i \in 1..Len(items) :
        outcome[i] = "error" =>
          /\ errors >= 1
          /\ \E k \in 1..Len(missing_rows) : missing_rows[k].item = i

\* C7: if the input (original root, spreadsheet) or the flat folder does not
\* exist, a configuration error is raised before the loop and before any
\* change on disk: nothing is moved or copied, the destination root is not made.
C7_MissingInputChangesNothing ==
    (~input_exists \/ ~isdir(dirs0, flat_folder)) =>
        /\ pc \in {"start", "raised"}
        /\ pc = "raised" => raised \in {"ValueError: input not found",
                                        "ValueError: flat folder not found"}
        /\ fs = fs0
        /\ dirs = dirs0
        /\ placed = <<>>
        /\ items = <<>>

C7_Witness ==
    /\ pc = "raised"
    /\ ~input_exists
    /\ DOMAIN fs0 # {}
    /\ ~isdir(dirs, destination_root)

\* C8: when the spreadsheet is unreadable or a configured column is absent,
\* the error leaves the system unchanged: nothing moved or copied, and nothing
\* (the destination root included) created on disk.
C8_MappingErrorChangesNothing ==
    raised \in MappingErrors => fs = fs0 /\ dirs = dirs0

C10_ReportWriteFailureKeepsFiles ==
    /\ [][(raised' = "report write" /\ raised = "")
            => (loop_over /\ pc' = "raised" /\ fs' = fs /\ placed' = placed)]_vars
    /\ [](raised = "report write" =>
            /\ pc = "raised"
            /\ \A i \in 1..Len(items) : outcome[i] # "pending"
            /\ \A j \in 1..Len(placed) :
                 /\ placed[j].dest \in DOMAIN fs
                 /\ fs[placed[j].dest] = fs0[placed[j].src]
                 /\ move_files => placed[j].src \notin DOMAIN fs)

C10_Witness ==
    /\ raised = "report write"
    /\ placed # <<>>
    /\ move_files

----------------------------------------------------------------------------
(* C11..C20 *)

PreconditionErrors ==
    {"ValueError: input not found", "ValueError: flat folder not found",
     "OSError: destination_root"} \cup MappingErrors

summary_logged == \E k \in 1..Len(log) : log[k].kind = "summary"

\* C11: every rebuild run that gets past the precondition checks ends with the
\* summary block given to the log callback, with or without a report path and
\* whatever happens while the report is written.
C11_SummaryAlwaysLogged ==
    (pc = "done" \/ (pc = "raised" /\ raised \notin PreconditionErrors))
        => summary_logged

C13_MoveModeSecondRunMissing ==
    (run = 2 /\ move_files) =>
        \A i \in 1..Len(items) :
            (first.outcome[i] = "Placed" /\ outcome[i] # "pending")
                => outcome[i] = "Missing"

C13_Witness ==
    /\ run = 2 /\ move_files /\ pc = "done"
    /\ \E i \in 1..Len(items) : first.outcome[i] = "Placed" /\ outcome[i] = "Missing"

\* The three spellings of the pdf extension
PdfSpellings == { <<".", "P", "D", "F">>, <<"p", "d", "f">>, <<".", "p", "d", "f">> }

\* C14: output_ext given as '.PDF', 'pdf' or '.pdf' is normalised to '.pdf'
\* before matching: for every source item the expected key, the extension
\* filter of the flat index (hence the index) and the classification are the
\* ones that '.pdf' gives.
C14_ExtSpellingsAgree ==
    (probe.fn = "return" /\ probe.args.output_ext \in PdfSpellings) =>
        probe.result = lookup_with(probe.args, <<".", "p", "d", "f">>,
                                   strip(probe.args.output_suffix))

C14_Witness ==
    /\ probe.fn = "return"
    /\ probe.args.output_ext = <<"p", "d", "f">>
    /\ probe.result.status = "match"
    /\ DOMAIN probe.result.all_files # {}

\* C15: in mapping mode a name cell with an extension and the same cell
\* without it resolve to the same expected key and get the same
\* classification against a given flat index.
C15_NameWithAndWithoutExtAgree ==
    (probe.fn = "return" /\ probe.args.mode = "xlsx" /\ probe.args.name_ext # <<>>) =>
        LET bare == lookup([probe.args EXCEPT !.name_ext = <<>>])
        IN  /\ probe.result.expected_key = bare.expected_key
            /\ probe.result.status = bare.status

\* C16: a mapping row whose directory cell or name cell is blank (NaN, empty,
\* white space only) is passed over: rows_considered and the other counters
\* stay as they are, no Missing row is added, no file is moved or copied.
C16_BlankRowIsNoOp ==
    [][(/\ mode = "xlsx" /\ in_loop
        /\ blank_cell(items[idx].dir) \/ blank_cell(items[idx].name)) =>
            /\ idx' = idx + 1
            /\ pc' = pc
            /\ UNCHANGED <<counters, missing_rows, used_unique, fs, dirs, placed, log,
                           report>>]_vars

C16_Witness ==
    /\ mode = "xlsx" /\ pc = "done" /\ Len(items) = 2
    /\ items[1].name = NaN /\ outcome[1] = "not considered"
    /\ items[2].dir = <<" ">> /\ outcome[2] = "not considered"
    /\ total_inputs = 0 /\ missing_rows = <<>> /\ fs = fs0

index_built == pc \in {"loop", "done"} \/ raised \in ReportErrors \cup {"OSError: dest_dir"}

\* C18: build_flat_index partitions the flat folder.  Every regular file
\* directly in the flat folder whose lower-cased name ends with the allowed
\* extension is in all_files, and in exactly one of unique_lookup and
\* duplicates; nothing else is indexed; the key sets of unique_lookup and
\* duplicates are disjoint and together are the keys of all_files; a key is in
\* unique_lookup exactly when one file has that lower-cased name.
C18_IndexPartition ==
    index_built =>
        /\ UNION {all_files[k] : k \in DOMAIN all_files} = flat_files0
        /\ \A p \in flat_files0 :
                LET k == key_of_path(p)
                    in_unique == k \in DOMAIN unique_lookup /\ unique_lookup[k] = p
                    in_dups == k \in DOMAIN duplicates /\ p \in duplicates[k]
                IN  /\ k \in DOMAIN all_files /\ p \in all_files[k]
                    /\ in_unique # in_dups
        /\ (DOMAIN unique_lookup) \cap (DOMAIN duplicates) = {}
        /\ (DOMAIN unique_lookup) \cup (DOMAIN duplicates) = DOMAIN all_files
        /\ \A k \in DOMAIN all_files :
                k \in DOMAIN unique_lookup
                    <=> Cardinality({p \in flat_files0 : key_of_path(p) = k}) = 1

C18_Witness ==
    /\ pc = "loop"
    /\ DOMAIN unique_lookup # {}
    /\ DOMAIN duplicates # {}
    /\ \E p \in DOMAIN fs0 : dirname(p) = flat_folder /\ p \notin flat_files0
    /\ isdir(dirs0, FlatSubdir)

\* C19: the flat index is built once, before the loop, and never changes
\* afterwards: no unique entry becomes a duplicate or the reverse, no key is
\* added or removed.  A step of the loop changes only the consumed set, the
\* counters, the row lists and the disk.
C19_IndexFrozenAfterBuild ==
    [][/\ index' # index => (pc = "start" /\ pc' = "loop")
       /\ pc = "loop" => UNCHANGED <<index, items, output_ext, output_suffix, config>>]_vars

C19_Witness ==
    /\ pc = "done" /\ move_files
    /\ \E k \in used_unique :
            k \in DOMAIN unique_lookup /\ unique_lookup[k] \notin DOMAIN fs
    /\ \E k \in DOMAIN duplicates : TRUE

row_dest(r) == IF pre_v4 THEN r.new_full_path ELSE r.new_path
row_ok(r) == pre_v4 => r.status = "OK"

\* C17 as stated: the pre-OCR loop polls a stop flag between files; once the
\* caller has set it no further file is handled.
C17_StopFlagEndsLoop ==
    [][stop.set => (pre'.i = pre.i /\ pre_fs' = pre_fs)]_vars

\* C17, amended: pre_ocr_append_token and pre_ocr_rename take no stop flag and
\* poll none.  The loop is left only after the last file of the walk or by an
\* exception, whether or not the caller wishes to stop; the files already
\* copied or renamed stay where they were put (no rollback).
C17_NoStopFlagNoRollback ==
    [][/\ (pre.pc = "loop" /\ pre'.pc = "done") => pre.i > Len(pre.files)
       /\ \A k \in 1..Len(pre.rows) :
            row_ok(pre.rows[k]) =>
                /\ row_dest(pre.rows[k]) \in DOMAIN pre_fs'
                /\ pre_fs'[row_dest(pre.rows[k])] = pre_fs[row_dest(pre.rows[k])]]_vars

C17_Witness ==
    /\ pre.pc = "done"
    /\ stop.set /\ stop.at = 1
    /\ Len(pre.rows) >= 2
    /\ \A k \in 1..Len(pre.rows) : row_ok(pre.rows[k])

\* The path with _n put before its extension
suffixed(path, n) == splitext_root(path) \o <<"_">> \o str_int(n) \o splitext_ext(path)

\* C20: the pre-OCR step never writes onto an existing path.  If the computed
\* destination exists when the file is handled, the file goes to base_n.ext
\* for the smallest n >= 1 whose path does not exist and the collision counter
\* goes up by one; otherwise it goes to the computed destination.  No file
\* that was there before, or that the run produced, changes its content.
C20_NeverWritesOntoExistingPath ==
    [][/\ \A p \in DOMAIN pre_fs : p \in DOMAIN pre_fs' => pre_fs'[p] = pre_fs[p]
       /\ (pre_in_loop /\ pre_fs' # pre_fs) =>
            \E q \in (DOMAIN pre_fs') \ (DOMAIN pre_fs) :
                /\ (DOMAIN pre_fs') \ (DOMAIN pre_fs) = {q}
                /\ IF exists(pre_fs, pre_dirs, pre_dest_full)
                   THEN /\ \E n \in 1..(Cardinality(DOMAIN pre_fs) + 1) :
                            /\ q = suffixed(pre_dest_full, n)
                            /\ \A m \in 1..(n - 1) :
                                    exists(pre_fs, pre_dirs, suffixed(pre_dest_full, m))
                        /\ pre_v4 => pre'.collisions = pre.collisions + 1
                   ELSE /\ q = pre_dest_full
                        /\ pre'.collisions = pre.collisions]_vars

C20_Witness ==
    /\ pre.pc = "done" /\ pre_v4
    /\ pre.collisions = 1
    /\ \E k \in 1..Len(pre.rows) :
            /\ pre.rows[k].status = "OK"
            /\ pre.rows[k].new_name = <<"a", "_", "_", "1", "_", "2", ".", "t", "x", "t">>

----------------------------------------------------------------------------
(* C21..C30 *)

\* The base name of a source item, in the item's own casing
stem_of(it) ==
    IF mode = "tree" THEN splitext_root(it.name)
    ELSE strip(splitext_root(strip(it.name)))

\* C21: a Placed item's file is at destination_root/target_folder_rel/name,
\* the name being the source item's base name in its own casing, the suffix
\* and the lower-cased output extension, not the name of the flat file; in
\* move mode the flat file is gone, in copy mode it is there and unchanged.
C21_PlacedWhereAndHow ==
    \A j \in 1..Len(placed) :
        LET it == items[placed[j].item]
            src == placed[j].src
            dest == placed[j].dest
        IN  /\ output_ext = lower(output_ext)
            /\ dest = os_path_join(
                        os_path_join(destination_root, resolve(it).target_folder_rel),
                        stem_of(it) \o output_suffix \o output_ext)
            /\ dest \in DOMAIN fs /\ fs[dest] = fs0[src]
            /\ dirname(src) = flat_folder
            /\ move_files => src \notin DOMAIN fs
            /\ ~move_files => (src \in DOMAIN fs /\ fs[src] = fs0[src])

C21_Witness ==
    /\ pc = "done"
    /\ \E j \in 1..Len(placed) :
            /\ basename(placed[j].dest) # basename(placed[j].src)
            /\ lower(basename(placed[j].dest)) = lower(basename(placed[j].src))
            /\ move_files /\ placed[j].src \notin DOMAIN fs

\* C25: every file placed by a rebuild run lands inside the destination root,
\* whatever the directory cell holds (drive prefix, leading separators) and
\* for either setting of directory_is_full_path.
C25_PlacedUnderDestinationRoot ==
    \A j \in 1..Len(placed) : startswith(placed[j].dest, destination_root \o <<SEP>>)

\* C26: the counters partition the considered items, after every item and at
\* the end of the run: inputs_scanned (rows_considered) = moved_or_copied +
\* missing_not_found + skipped_duplicates + errors, and the Missing sheet has
\* missing_not_found + skipped_duplicates rows; every considered item adds
\* one to exactly one of the four outcome counters.
C26_CountersPartition ==
    /\ total_inputs = moved_or_copied + missing_not_found + skipped_duplicates + errors
    /\ Len(missing_rows) = missing_not_found + skipped_duplicates
    /\ total_inputs = Cardinality({i \in 1..Len(outcome) : processed(i)})

\* Items after i that resolve to the key of i and whose move was tried
later_same_key(i) ==
    {j \in (i + 1)..Len(items) :
        /\ considered(items[j]) /\ key_of(j) = key_of(i)
        /\ outcome[j] \notin {"pending", "raised"}}

C22_OneAuditRowPerFile ==
    pre_v4 =>
        /\ Len(pre.rows) = pre.scanned - pre.skipped
        /\ \A k \in 1..Len(pre.rows) : pre.rows[k].status \in {"OK", "ERROR"}
        /\ pre.errors = Cardinality({k \in 1..Len(pre.rows) : pre.rows[k].status = "ERROR"})
        /\ pre.processed = Cardinality({k \in 1..Len(pre.rows) : pre.rows[k].status = "OK"})
        /\ pre.pc = "raised" => pre.raised \in {"ValueError: source root not found",
                                                "OSError: staging_root", "report write"}

\* The number a string of decimal digits stands for
RECURSIVE int_of(_)
int_of(s) ==
    IF s = <<>> THEN 0
    ELSE 10 * int_of(SubSeq(s, 1, Len(s) - 1))
            + (CHOOSE d \in 0..9 : Digits[d + 1] = s[Len(s)])

\* The files of the walk that pass the extension filter, in walk order
filtered_walk ==
    select_seq(pre.files, {k \in 1..Len(pre.files) : passes_filter(pre.files[k])})

\* C27: in counter mode of pre_ocr_append_token the k-th file of the walk that
\* passes the filter gets the token k, padded with zeros, whether or not its
\* copy or rename succeeds; the tokens are distinct and increase in row
\* order; a file left out by the filter uses up no counter value.
C27_CounterTokens ==
    (pre_v4 /\ pre.token_mode = "counter") =>
        /\ \A k \in 1..Len(pre.rows) :
            /\ int_of(pre.rows[k].token) = k
            /\ Len(pre.rows[k].token) = Max({1, pre.counter_padding, Len(str_int(k))})
            /\ pre.rows[k].source_full_path = src_full_of(filtered_walk[k])
        /\ \A k, l \in 1..Len(pre.rows) :
            k < l => int_of(pre.rows[k].token) < int_of(pre.rows[l].token)
        /\ pre.pc # "raised" => pre.counter = 1 + pre.scanned - pre.skipped

C27_Witness ==
    /\ pre.pc = "done" /\ pre_v4 /\ pre.token_mode = "counter"
    /\ pre.counter_padding = 2
    /\ pre.skipped = 1
    /\ Len(pre.rows) = 3
    /\ pre.rows[2].status = "ERROR"
    /\ pre.rows[3].token = <<"0", "3">> /\ pre.rows[3].status = "OK"
    /\ pre.rows[3].original_name = <<"a", ".", "t", "x", "t">>

\* C23: rebuild_structure never places an expected key that two or more
\* files of the flat folder match by lower-cased name: no file of such a
\* group is moved or copied for any source item.
C23_SimpleRebuildSkipsAmbiguous ==
    \A j \in 1..Len(rb.placed) :
        Cardinality({p \in DOMAIN rb_fs0 :
                        /\ dirname(p) = flat_folder
                        /\ lower(basename(p)) = lower(basename(rb.placed[j].src))}) = 1

\* What the comparison is about: the rows a scan of the two folders gives
scanned_original == scan_all_files(original_tree, skip_hidden, skip_extensions)
scanned_revised == scan_all_files(revised_tree, skip_hidden, skip_extensions)
row_keys(rows) == {doc_key(rows[i]) : i \in 1..Len(rows)}
pdf_rows(rows) == select_seq(rows, {k \in 1..Len(rows) : rows[k].ext = <<".", "p", "d", "f">>})
keys_of(d) == {d[i].key : i \in 1..Len(d)}
one_entry_per_key(d) == \A i, k \in 1..Len(d) : d[i].key = d[k].key => i = k
compared(j) == jobs[j].kind = "compare" /\ jobs[j].res = "ok"

\* C24: once a comparison has stored its result, the expected list holds
\* exactly one entry for every (relative folder, stem) of a scanned Original
\* file, with the number of its source variants and the path folder/stem.pdf;
\* the missing list holds, once each, exactly the keys for which no scanned
\* Revised file with extension .pdf (in any case) has that folder and stem;
\* the extra list holds, once each, exactly the keys of scanned Revised .pdf
\* files that no scanned Original file has.
C24_DocumentsByFolderAndStem ==
    (\E j \in 1..Len(jobs) : compared(j)) =>
        LET original_keys == row_keys(scanned_original)
            revised_pdf_keys == row_keys(pdf_rows(scanned_revised))
            variant_keys == [k \in 1..Len(scanned_original) |-> doc_key(scanned_original[k])]
        IN  /\ \A j \in 1..Len(jobs) : compared(j) =>
                LET expected == jobs[j].expected
                IN  /\ one_entry_per_key(expected)
                    /\ keys_of(expected) = original_keys
                    /\ \A i \in 1..Len(expected) :
                        /\ expected[i].variants =
                              Cardinality({k \in 1..Len(variant_keys) :
                                              variant_keys[k] = expected[i].key})
                        /\ basename(expected[i].expected_rel)
                              = expected[i].key[2] \o <<".", "p", "d", "f">>
                        /\ dirname(expected[i].expected_rel) = expected[i].key[1]
            /\ one_entry_per_key(last_missing)
            /\ keys_of(last_missing) = original_keys \ revised_pdf_keys
            /\ one_entry_per_key(last_extra)
            /\ keys_of(last_extra) = revised_pdf_keys \ original_keys

C24_Witness ==
    \E j \in 1..Len(jobs) :
        /\ compared(j)
        /\ \E i \in 1..Len(jobs[j].expected) :
            /\ jobs[j].expected[i].variants = 2
            /\ jobs[j].expected[i].key = << << >>, <<"x">> >>
        /\ keys_of(last_missing) = { << << >>, <<"x">> >> }
        /\ keys_of(last_extra) = { << << >>, <<"X">> >>, << << >>, <<"q">> >> }

extract_returned(j) == jobs[j].kind = "extract" /\ jobs[j].pc \in {"finally", "done"}

\* C29: copy_sources_for_missing ends either cancelled, with fewer files
\* attempted than total and copied + failed the number attempted, or done,
\* with copied + failed = total; total is the number of source variants of
\* all missing keys.
C29_CancelledOrDone ==
    \A j \in 1..Len(jobs) : extract_returned(j) =>
        /\ jobs[j].total = Len(select_seq(scanned_original,
                                {k \in 1..Len(scanned_original) :
                                    doc_key(scanned_original[k])
                                        \notin row_keys(pdf_rows(scanned_revised))}))
        /\ \/ /\ jobs[j].res = "cancelled"
              /\ jobs[j].copied + jobs[j].failed < jobs[j].total
              /\ jobs[j].copied + jobs[j].failed = jobs[j].i - 1
           \/ /\ jobs[j].res = "done"
              /\ jobs[j].copied + jobs[j].failed = jobs[j].total

\* C30: at most one job is busy at any time: a job is started only after the
\* worker of every earlier job has run set_busy(False).
C30_NewJobOnlyWhileIdle ==
    Cardinality({j \in 1..Len(jobs) : jobs[j].pc # "done"}) <= 1

====
